---- MODULE Spec2Model ----
(***************************************************************************)
(* Credential and token lifecycle of the Smart Device Management backend:  *)
(* the User model (models/User.js), the TokenBlacklist model, the auth     *)
(* middleware and the auth controller (login, refresh, logout,             *)
(* logout-all).                                                            *)
(*                                                                         *)
(* Time is counted in seconds, the resolution of a JWT's iat and exp.      *)
(* A request handler is cut at the points where it waits for the store:    *)
(* each action is the code between two store operations, so that other     *)
(* requests interleave exactly where the event loop lets them.             *)
(*                                                                         *)
(* The store is MongoDB behind Mongoose documents:                         *)
(*  - a query returns a snapshot of the record (a document);               *)
(*  - save() writes only the paths the handler modified on its document;   *)
(*  - an array changed with push() is written with $push and increments    *)
(*    the record's version __v; an array that was assigned is written      *)
(*    with $set under the condition that __v is still the one read, and    *)
(*    otherwise the save fails with VersionError;                          *)
(*  - save() on a document whose previous save() has not finished is       *)
(*    rejected with ParallelSaveError.                                     *)
(***************************************************************************)
EXTENDS Integers, Sequences, FiniteSets, TLC

\* ------------------------------------------------------------ bounds
MaxTicks == 3
MaxValidLogins == 2
MaxSessionTicks == 1
MaxSeqRequests == 3
MaxRequests == 3
MaxProbes == 1
MaxProbeTicks == 2
MaxRegistryRequests == 3
MaxRegistryTicks == 2
MaxSweeps == 2
MaxSignupRequests == 3
MaxJourneyRequests == 4
MaxProtectedRequests == 4
MaxLimiterRequests == 7
MaxLimiterTicks == 1
MaxDeviceRequests == 4
MaxOwnerRequests == 4
MaxWrongLogins == 6
MaxCrossRequests == 4
MaxLogRequests == 5
MaxLoginRequests == 6
MaxSockets == 3

\* ------------------------------------------------- program constants
LockThreshold == 5
LockTime == 900
AccessExpiresIn == 900
RefreshExpiresIn == 604800
Null == -1

Slots == {1, 2}
Ids == {1}
NoUser == 0
Emails == {"a@x.com", "nobody@x.com"}
Passwords == {"Secret123", "Wrong123"}
\* The clock is observed every half lock window.
\* createAuthRateLimiter: max and windowMs (in seconds).
MaxAuthRequests == 5
AuthWindow == 900

\* The address the login requests come from.
Ip == "10.0.0.1"

\* keyGenerator of the login limiter.
keyGenerator(ip, email) == <<ip, IF email # "" THEN email ELSE ip>>

LimiterKeys == {keyGenerator(Ip, e) : e \in Emails}

\* A device document.
NewDevice(id, owner, name, status) ==
  [id |-> id, owner_id |-> owner, name |-> name, status |-> status, last_active_at |-> Null]

\* No device data: what a response or a cache entry without logs or usage
\* carries.
NoData == [kind |-> "", device_id |-> "", logs |-> {}, total_units |-> 0, log_count |-> 0]

\* cacheKeys.deviceList for a request without query parameters.
deviceList(userId) == <<"devices", "list", userId, "all", "all", 1, 10>>

\* cacheKeys.deviceLogs and cacheKeys.analytics for a request without query
\* parameters: the device id and the defaults, and no user.
deviceLogs(id) == <<"logs", "device", id, 10, 1, "all", "all">>
analytics(id) == <<"analytics", "device", id, "24h">>

CacheKeys ==
  {deviceList(i) : i \in {1, 2}}
    \cup {deviceLogs(d) : d \in {"d1", "d2"}} \cup {analytics(d) : d \in {"d1", "d2"}}

\* A key Redis does not hold.
NoEntry == [held |-> FALSE, devices |-> {}, data |-> NoData]

TickSteps == {LockTime \div 2}
\* The clock is observed every lifetime of an access token.
RegistryTickSteps == {AccessExpiresIn}

\* ------------------------------------------------------------- state
VARIABLES
  users,      \* the users collection: id -> stored record
  blacklist,  \* the tokenblacklists collection
  pending,    \* save() calls nobody awaits, not yet applied by the store
  req,        \* the requests being handled, one per slot
  now,        \* the clock (Date.now(), in seconds)
  ticks,      \* how often the clock has advanced
  nreq,       \* how many requests have arrived
  hist,       \* what has been observed so far (history, read by no handler)
  env,        \* process.env: the signing secrets
  sockets,    \* the WebSocket connections the handshake accepted
  swept,      \* what the runs of cleanExpired returned
  gone,       \* the refresh tokens that have left a stored membership (history)
  uploads,    \* the files in UPLOAD_PATH
  exportJobs, \* exportService.exportJobs: the export jobs this process holds
  limiter,    \* the store of the login rate limiter: hits per key, reset time
  attempts,   \* per key, the logins of this window answered 400 or above (history)
  devices,    \* the devices collection
  connections,         \* the open WebSocket connections: socket id, user, rooms
  connectedUsers,      \* webSocketService.connectedUsers: userId -> socket
  deviceSubscriptions, \* webSocketService.deviceSubscriptions: deviceId -> userIds
  logs,       \* the logs collection
  cache       \* the Redis cache: key -> entry


\* ------------------------------------------------------------ tokens
\* jwt.sign of { id, type } with iat = now and exp = iat + expiresIn: two
\* tokens of one class signed for one account within the same second are
\* the same string.
ExpiresIn(type) == IF type = "access" THEN AccessExpiresIn ELSE RefreshExpiresIn

\* The environment variable that holds the secret a token class is signed with.
SecretOf(type) == IF type = "access" THEN "JWT_SECRET" ELSE "JWT_REFRESH_SECRET"

\* A token signed with a given key: the payload and the signature, which
\* stands for the key that made it.
Signed(id, type, iat, key) ==
  [id |-> id, type |-> type, iat |-> iat, exp |-> iat + ExpiresIn(type), sig |-> key]

Token(id, type, iat) == Signed(id, type, iat, env[SecretOf(type)])

NoToken == [id |-> NoUser, type |-> "none", iat |-> 0, exp |-> 0, sig |-> ""]

generateAccessToken(doc, t) == Token(doc.id, "access", t)

\* jwt.verify(token, process.env[secret]): "JsonWebTokenError" for a
\* signature the key did not make, "TokenExpiredError" once the clock has
\* reached exp, else "ok".
JwtVerify(tok, secret, t) ==
  IF tok = NoToken \/ tok.sig # env[secret] THEN "JsonWebTokenError"
  ELSE IF t >= tok.exp THEN "TokenExpiredError"
  ELSE "ok"

\* ---------------------------------------------------------- password
\* A value of the password path: the text it derives from and how many
\* times bcrypt.hash was applied to it (0: the plaintext itself).
Plain(text) == [of |-> text, rounds |-> 0]

\* bcrypt.hash(password, salt): the digest of whatever the path holds.
Hash(password) == [of |-> password.of, rounds |-> password.rounds + 1]

comparePasswordPlain(doc, candidate) == doc.password = Plain(candidate)

\* bcrypt.compare(candidate, this.password): true for the digest of the
\* candidate, false for anything else.
comparePassword(doc, candidate) == doc.password = Hash(Plain(candidate))

preSaveAlways(doc, passwordModified) == [doc EXCEPT !.password = Hash(@)]

\* pre('save'): the password is hashed only when the path was modified.
preSave(doc, passwordModified) ==
  IF ~passwordModified THEN doc ELSE [doc EXCEPT !.password = Hash(@)]

\* ------------------------------------------------------- User document
NoDoc == [id |-> NoUser, name |-> "", email |-> "", password |-> Plain(""),
          role |-> "", isActive |-> FALSE,
          refreshTokens |-> <<>>, lastLogin |-> Null, loginAttempts |-> 0,
          lockUntil |-> Null, v |-> 0]

\* The record of an account that was registered with a password.
NewUser(id, email, plain, active) ==
  [id |-> id, name |-> "John Doe", email |-> email, password |-> Hash(Plain(plain)),
   role |-> "user", isActive |-> active,
   refreshTokens |-> <<>>, lastLogin |-> Null, loginAttempts |-> 0,
   lockUntil |-> Null, v |-> 0]

\* A query's projection: the document without the excluded paths.
Select(doc, excluded) == [f \in DOMAIN doc \ excluded |-> doc[f]]

toJSONWhole(doc) == doc

\* toJSON: toObject() without password and refreshTokens.
toJSON(doc) == [f \in DOMAIN doc \ {"password", "refreshTokens"} |-> doc[f]]

\* The user object of the login response.
LoginUser(userResponse) ==
  [id |-> userResponse.id, name |-> userResponse.name, email |-> userResponse.email,
   role |-> userResponse.role, lastLogin |-> userResponse.lastLogin]

\* The setter of the email path (lowercase: true): run when the path is set
\* on a document and when a query filter on it is cast.
Lowercase(email) ==
  CASE email = "A@X.com" -> "a@x.com"
    [] email = "B@X.com" -> "b@x.com"
    [] OTHER -> email

\* The unique index on email: a write that would give the record id an
\* email another record has is refused with a duplicate key error.
DuplicateKey(us, id, email) ==
  \E j \in DOMAIN us : j # id /\ us[j] # NoDoc /\ us[j].email = email

isLockedNever(doc, t) == FALSE

\* virtual isLocked
isLocked(doc, t) == doc.lockUntil # Null /\ doc.lockUntil > t

incLoginAttemptsLate(doc, t) ==
  LET n == doc.loginAttempts + 1
  IN  IF n > LockThreshold /\ ~isLocked(doc, t)
      THEN [doc EXCEPT !.loginAttempts = n, !.lockUntil = t + LockTime]
      ELSE [doc EXCEPT !.loginAttempts = n]

incLoginAttempts(doc, t) ==
  LET n == doc.loginAttempts + 1
  IN  IF n >= LockThreshold /\ ~isLocked(doc, t)
      THEN [doc EXCEPT !.loginAttempts = n, !.lockUntil = t + LockTime]
      ELSE [doc EXCEPT !.loginAttempts = n]

updateLastLoginOnly(doc, t) == [doc EXCEPT !.lastLogin = t]

updateLastLogin(doc, t) ==
  [doc EXCEPT !.lastLogin = t, !.loginAttempts = 0, !.lockUntil = Null]

RECURSIVE SeqFilterOut(_, _)
SeqFilterOut(s, tok) ==
  IF s = <<>> THEN <<>>
  ELSE IF Head(s) = tok THEN SeqFilterOut(Tail(s), tok)
  ELSE <<Head(s)>> \o SeqFilterOut(Tail(s), tok)

Range(s) == {s[i] : i \in 1..Len(s)}

hasRefreshToken(doc, tok) == tok \in Range(doc.refreshTokens)

\* save() of the scalar paths: only the paths whose value the handler
\* changed on its document (old -> new) are written over the stored record.
SaveScalars(stored, old, new) ==
  [stored EXCEPT
     !.password = IF new.password # old.password THEN new.password ELSE @,
     !.lastLogin = IF new.lastLogin # old.lastLogin THEN new.lastLogin ELSE @,
     !.loginAttempts = IF new.loginAttempts # old.loginAttempts THEN new.loginAttempts ELSE @,
     !.lockUntil = IF new.lockUntil # old.lockUntil THEN new.lockUntil ELSE @]


\* findOne({ email }) / findById(id) / findByRefreshToken(token) on a store
findOne(us, email) ==
  IF \E i \in DOMAIN us : us[i] # NoDoc /\ us[i].email = email
  THEN us[CHOOSE i \in DOMAIN us : us[i] # NoDoc /\ us[i].email = email]
  ELSE NoDoc

findById(us, id) == IF id \in DOMAIN us THEN us[id] ELSE NoDoc

findByTokenOwner(us, tok) == findById(us, tok.id)

findByRefreshToken(us, tok) ==
  IF \E i \in DOMAIN us : us[i] # NoDoc /\ hasRefreshToken(us[i], tok)
  THEN us[CHOOSE i \in DOMAIN us : us[i] # NoDoc /\ hasRefreshToken(us[i], tok)]
  ELSE NoDoc

\* generateRefreshToken: sign, push on the document, save() without await.
\* The caller gets the token at once; the document is left with a save in
\* flight.
generateRefreshToken(doc, t) ==
  LET tok == Token(doc.id, "refresh", t)
  IN  [token |-> tok,
       doc |-> [doc EXCEPT !.refreshTokens = Append(@, tok)],
       saving |-> TRUE]

\* removeRefreshToken: the array is assigned the filtered array.
removeRefreshToken(doc, tok) ==
  [doc EXCEPT !.refreshTokens = SeqFilterOut(@, tok)]

\* addRefreshToken: push.
addRefreshToken(doc, tok) == [doc EXCEPT !.refreshTokens = Append(@, tok)]

\* save() on a document that still has a save in flight is rejected
\* (ParallelSaveError).
SaveNeverRejected(saving) == FALSE

SaveRejected(saving) == saving

\* A $set of an assigned array is applied only to the version that was read.
VersionAlwaysMatches(stored, v) == TRUE

VersionMatches(stored, v) == stored.v = v

\* -------------------------------------------------- TokenBlacklist
isBlacklisted(bl, tok) == \E e \in bl : e.token = tok

\* addToBlacklist: create; a duplicate token (unique index) fails and the
\* failure is swallowed.
addToBlacklist(bl, tok, userId, type, expiresAt, reason) ==
  IF isBlacklisted(bl, tok) THEN bl
  ELSE bl \cup {[token |-> tok, userId |-> userId, type |-> type,
                 expiresAt |-> expiresAt, reason |-> reason]}

\* cleanExpired: deleteMany({ expiresAt: { $lt: new Date() } }); what is
\* left and the deletedCount it returns.
cleanExpiredAll(bl, t) == [remaining |-> {}, deletedCount |-> Cardinality(bl)]

cleanExpiredSoon(bl, t) ==
  [remaining |-> {e \in bl : ~(e.expiresAt <= t + AccessExpiresIn)},
   deletedCount |-> Cardinality({e \in bl : e.expiresAt <= t + AccessExpiresIn})]

cleanExpired(bl, t) ==
  [remaining |-> {e \in bl : ~(e.expiresAt < t)},
   deletedCount |-> Cardinality({e \in bl : e.expiresAt < t})]

\* The TTL index on expiresAt (expires: 0): the store itself deletes an
\* entry once the clock has reached its expiresAt.
ttlExpired(bl, t) == {e \in bl : e.expiresAt <= t}

\* ---------------------------------------------------------- responses
MsgTooManyAttempts == "Too many authentication attempts, please try again later."
MsgInvalidCredentials == "Invalid email or password"
MsgDeactivated == "User account is deactivated"
MsgLocked == "Account is temporarily locked due to multiple failed login attempts"
MsgRefreshLocked == "Account is temporarily locked"
MsgRefreshRequired == "Refresh token is required"
MsgRefreshRevoked == "Refresh token has been revoked"
MsgRefreshInvalid == "Invalid refresh token"
MsgRefreshExpired == "Refresh token has expired"
MsgRefreshError == "Error refreshing tokens"
MsgRefreshed == "Tokens refreshed successfully"
MsgTokenRequired == "Access token is required"
MsgTokenRevoked == "Token has been revoked"
MsgTokenInvalid == "Invalid token"
MsgTokenExpired == "Token has expired"
MsgTokenType == "Invalid token type"
MsgUserNotFound == "Invalid token - user not found"
MsgLoggedOut == "Logged out successfully"
MsgLoggedOutAll == "Logged out from all devices successfully"
MsgLogoutError == "Error during logout"
MsgEmailExists == "User with this email already exists"
MsgRegistered == "User registered successfully"
MsgSignupError == "Error creating user account"
MsgEmailTaken == "Email is already taken"
MsgProfileUpdated == "Profile updated successfully"
MsgProfileError == "Error updating profile"
MsgRouteNotFound == "Route not found"
MsgDeviceNotFound == "Device not found"
MsgDeviceDeleted == "Device deleted successfully"
MsgHeartbeat == "Device heartbeat recorded"
MsgExportCreated == "Export job created successfully"
MsgFileNotFound == "File not found"
MsgAccessDenied == "Access denied"
MsgWsTokenRequired == "Authentication token required"
MsgWsTokenType == "Invalid token type"
MsgWsUser == "User not found or inactive"
MsgWsFailed == "Authentication failed"

\* What a client can tell one error from another by.
Signal(resp) == <<resp.status, resp.message>>

\* A response body without a user object.
NoFields == <<>>

\* No file: what a JSON response streams, what a request without a file
\* name asks for.
NoFile == <<>>

\* The error of a job that has none (null).
NoError == ""

\* No job: what a response that shows no export job carries.
NoJob ==
  [id |-> 0, userId |-> NoUser, status |-> "", progress |-> 0,
   device |-> "", fileName |-> NoFile, error |-> NoError]

NoResp == [status |-> 0, message |-> "", code |-> "", accessToken |-> NoToken,
           refreshToken |-> NoToken, user |-> NoFields, file |-> NoFile,
           devices |-> {}, cached |-> FALSE, job |-> NoJob, data |-> NoData]

Resp(status, message) ==
  [status |-> status, message |-> message, code |-> "", accessToken |-> NoToken,
   refreshToken |-> NoToken, user |-> NoFields, file |-> NoFile,
   devices |-> {}, cached |-> FALSE, job |-> NoJob, data |-> NoData]

RespTokens(message, access, refresh) ==
  [status |-> 200, message |-> message, code |-> "", accessToken |-> access,
   refreshToken |-> refresh, user |-> NoFields, file |-> NoFile,
   devices |-> {}, cached |-> FALSE, job |-> NoJob, data |-> NoData]

RespUser(message, user) == [Resp(200, message) EXCEPT !.user = user]


\* The bookkeeping of the WebSocket service.
socketState == <<connections, connectedUsers, deviceSubscriptions>>

vars == <<users, blacklist, pending, req, now, ticks, nreq, hist, env, sockets, swept, gone,
          connections, connectedUsers, deviceSubscriptions,
          uploads, exportJobs, limiter, attempts, devices, logs, cache>>

\* What stands around the token routes: the export files and jobs, the rate
\* limiter of the login route, the devices and the cache of their lists.
exportState == <<uploads, exportJobs>>

limiterState == <<limiter, attempts>>

deviceState == <<devices, logs, cache>>

edge == <<exportState, limiterState, deviceState>>

InitEdge ==
  /\ uploads = {}
  /\ exportJobs = {}
  /\ limiter = [hits |-> [k \in LimiterKeys |-> 0], resetTime |-> AuthWindow]
  /\ attempts = [failed |-> [k \in LimiterKeys |-> 0], stale |-> {}]
  /\ devices = {NewDevice("d1", 1, "lamp", "active")}
  /\ logs = {}
  /\ cache = [k \in CacheKeys |-> NoEntry]
  /\ connections = {}
  /\ connectedUsers = <<>>
  /\ deviceSubscriptions = <<>>

\* What no request handler of the auth routes writes.
aside == <<env, sockets, swept, gone, socketState, edge>>

Idle ==
  [op |-> "none", pc |-> "idle", name |-> "", email |-> "", password |-> "", role |-> "",
   bearer |-> NoToken, bodyAccess |-> NoToken, bodyRefresh |-> NoToken,
   doc |-> NoDoc, valid |-> FALSE, todo |-> {}, failed |-> FALSE,
   known |-> FALSE, correct |-> FALSE, compared |-> FALSE, passedAuth |-> FALSE, sawLocked |-> FALSE,
   anonymous |-> FALSE,
   sawExpired |-> FALSE, nth |-> 0, jobId |-> 0, file |-> NoFile, device |-> "", status |-> "",
   found |-> {}, resp |-> NoResp]

Free(r) == req[r].pc \in {"idle", "done"}

\* A request is taken by the lowest free slot.
Takes(r) == Free(r) /\ \A s \in Slots : Free(s) => r <= s

Quiet == \A s \in Slots : Free(s)

Arrive(op) == [Idle EXCEPT !.op = op]

\* The response is sent: what the handler held is dropped, what was observed
\* of the request is kept.
Done(rq, resp) ==
  [Idle EXCEPT !.op = rq.op, !.pc = "done", !.resp = resp,
               !.bodyRefresh = rq.bodyRefresh,
               !.known = rq.known, !.correct = rq.correct, !.compared = rq.compared,
               !.passedAuth = rq.passedAuth, !.sawLocked = rq.sawLocked,
               !.anonymous = rq.anonymous,
               !.sawExpired = rq.sawExpired, !.nth = rq.nth]

\* What the stored record looked like to an observer at time t.
LockedAt(id, t) == users[id].lockUntil # Null /\ users[id].lockUntil > t

LockExpiredAt(id, t) == users[id].lockUntil # Null /\ users[id].lockUntil <= t

Init ==
  /\ \E active \in BOOLEAN :
       users = [i \in Ids |-> NewUser(i, "a@x.com", "Secret123", active)]
  /\ blacklist = {}
  /\ pending = {}
  /\ req = [r \in Slots |-> Idle]
  /\ now = 0
  /\ ticks = 0
  /\ nreq = 0
  /\ env = [JWT_SECRET |-> "access-secret", JWT_REFRESH_SECRET |-> "refresh-secret"]
  /\ sockets = {}
  /\ swept = <<>>
  /\ gone = {}
  /\ InitEdge
  /\ hist = [fails |-> 0, logins |-> 0,
             unknownSignal |-> {}, wrongPasswordSignal |-> {},
             returned |-> {}, access |-> {}, invalidated |-> {},
             presented |-> {}, granted |-> {}, doubleGrant |-> FALSE,
             expect |-> {}, revoked |-> {}]

\* The clock advances.
Tick(d, max) ==
  /\ ticks < max
  /\ now' = now + d
  /\ ticks' = ticks + 1
  /\ UNCHANGED <<users, blacklist, pending, req, hist>>

\* ------------------------------------------------------------- login
\* The 401 of POST /auth/login for an email no account has, and the one for
\* a wrong password.
LoginUnknownEmail == Resp(401, MsgInvalidCredentials)

LoginWrongPasswordTold == Resp(401, "Invalid password")

LoginWrongPassword == Resp(401, MsgInvalidCredentials)

\* The request carries the password the account was registered with.
CorrectPassword(email, password) ==
  \E i \in DOMAIN users : users[i] # NoDoc /\ users[i].email = Lowercase(email)
                             /\ users[i].password = Hash(Plain(password))

\* POST /auth/login up to the password comparison: findOne, the checks of
\* the account, comparePassword.
LoginFind(r, email, password) ==
  /\ Takes(r)
  /\ CorrectPassword(email, password) => hist.logins < MaxValidLogins
  /\ LET doc == findOne(users, Lowercase(email))
         rq == [Arrive("login") EXCEPT
                  !.email = email, !.password = password, !.doc = doc,
                  !.known = doc # NoDoc,
                  !.correct = CorrectPassword(email, password),
                  !.sawLocked = doc # NoDoc /\ LockedAt(doc.id, now),
                  !.sawExpired = doc # NoDoc /\ LockExpiredAt(doc.id, now)]
         out == IF doc = NoDoc THEN Done(rq, LoginUnknownEmail)
                ELSE IF ~doc.isActive THEN Done(rq, Resp(401, MsgDeactivated))
                ELSE IF isLocked(doc, now) THEN Done(rq, Resp(401, MsgLocked))
                ELSE [rq EXCEPT !.pc = "loginSave", !.compared = TRUE,
                                !.valid = comparePassword(doc, password)]
     IN  /\ req' = [req EXCEPT ![r] = out]
         /\ hist' = IF out.pc # "done"
                    THEN [hist EXCEPT !.logins = IF rq.correct THEN @ + 1 ELSE @]
                    ELSE [hist EXCEPT
                            !.logins = IF rq.correct THEN @ + 1 ELSE @,
                            !.unknownSignal =
                               IF doc = NoDoc THEN @ \cup {Signal(out.resp)} ELSE @]
  /\ UNCHANGED <<users, blacklist, pending, now, ticks>>

\* POST /auth/login from the awaited save on.  Wrong password:
\* incLoginAttempts, save, 401.  Right password: updateLastLogin, save, then
\* both tokens are generated and returned; generateRefreshToken's own save
\* is left in flight.
LoginSave(r) ==
  /\ req[r].pc = "loginSave"
  /\ LET doc == req[r].doc
     IN  IF ~req[r].valid
         THEN LET new == preSave(incLoginAttempts(doc, now), FALSE)
                  out == Done(req[r], LoginWrongPassword)
              IN  /\ users' = [users EXCEPT ![doc.id] = SaveScalars(@, doc, new)]
                  /\ req' = [req EXCEPT ![r] = out]
                  /\ pending' = pending
                  /\ hist' = [hist EXCEPT
                                    !.fails = @ + 1,
                                !.wrongPasswordSignal = @ \cup {Signal(out.resp)}]
         ELSE LET new == preSave(updateLastLogin(doc, now), FALSE)
                  access == generateAccessToken(new, now)
                  g == generateRefreshToken(new, now)
                  out == Done(req[r], [RespTokens("", access, g.token) EXCEPT
                                         !.user = LoginUser(toJSON(g.doc))])
              IN  /\ users' = [users EXCEPT ![doc.id] = SaveScalars(@, doc, new)]
                  /\ req' = [req EXCEPT ![r] = out]
                  /\ pending' = pending \cup
                       {[id |-> doc.id, kind |-> "push", token |-> g.token,
                         tokens |-> <<>>, v |-> 0, removed |-> {}, added |-> {g.token}]}
                  /\ hist' = [hist EXCEPT
                                    !.fails = 0,
                                !.returned = @ \cup {g.token},
                                !.access = @ \cup {access}]
  /\ UNCHANGED <<blacklist, now, ticks>>

\* ------------------------------------------- saves nobody waits for
\* The store applies a $push of generateRefreshToken.
PushLands(p) ==
  /\ p \in pending /\ p.kind = "push"
  /\ users' = [users EXCEPT ![p.id] =
                 [@ EXCEPT !.refreshTokens = Append(@, p.token), !.v = @ + 1]]
  /\ pending' = pending \ {p}
  /\ hist' = [hist EXCEPT !.expect = @ \cup {p.token}]
  /\ UNCHANGED <<blacklist, req, now, ticks>>

\* The store fails a save nobody waits for: the rejection has no handler.
SaveFails(p) ==
  /\ p \in pending
  /\ pending' = pending \ {p}
  /\ UNCHANGED <<users, blacklist, req, now, ticks, hist>>

\* The store applies the $set of an assigned refreshTokens array, if the
\* record still has the version that was read; else VersionError, which for
\* a save nobody waits for goes unnoticed.
SetLands(p) ==
  /\ p \in pending /\ p.kind = "set"
  /\ pending' = pending \ {p}
  /\ IF VersionMatches(users[p.id], p.v)
     THEN /\ users' = [users EXCEPT ![p.id] =
                         [@ EXCEPT !.refreshTokens = p.tokens, !.v = @ + 1]]
          /\ hist' = [hist EXCEPT !.expect = (@ \ p.removed) \cup p.added]
     ELSE UNCHANGED <<users, hist>>
  /\ UNCHANGED <<blacklist, req, now, ticks>>

\* ----------------------------------------------------------- refresh
\* The refresh tokens a client can present: those some response returned.
\* authenticateRefreshToken, first part: isBlacklisted.
RefreshBlacklistCheck(r, tok) ==
  /\ Takes(r)
  /\ LET rq == [Arrive("refresh") EXCEPT
                  !.bodyRefresh = tok,
                  !.nth = IF tok \in hist.presented THEN 1 ELSE 0]
         out == IF isBlacklisted(blacklist, tok)
                THEN Done(rq, Resp(401, MsgRefreshRevoked))
                ELSE [rq EXCEPT !.pc = "refreshAuth"]
     IN  /\ req' = [req EXCEPT ![r] = out]
         /\ hist' = [hist EXCEPT
                       !.presented = @ \cup {tok}]
  /\ UNCHANGED <<users, blacklist, pending, now, ticks>>

\* What authenticateRefreshToken answers after the blacklist check: the
\* message of its 401, or "next" when it calls next().
RefreshAuthOutcome(us, tok, t) ==
  LET verdict == JwtVerify(tok, "JWT_REFRESH_SECRET", t)
      user == findByRefreshToken(us, tok)
  IN  IF verdict = "JsonWebTokenError" THEN MsgRefreshInvalid
      ELSE IF verdict = "TokenExpiredError" THEN MsgRefreshExpired
      ELSE IF tok.type # "refresh" THEN MsgRefreshInvalid
      ELSE IF user = NoDoc THEN MsgRefreshInvalid
      ELSE IF ~user.isActive THEN MsgDeactivated
      ELSE IF isLocked(user, t) THEN MsgRefreshLocked
      ELSE "next"

\* authenticateRefreshToken, second part: jwt.verify, the class tag,
\* findByRefreshToken, the checks of the account.
RefreshAuth(r) ==
  /\ req[r].pc = "refreshAuth"
  /\ LET m == RefreshAuthOutcome(users, req[r].bodyRefresh, now)
         out == IF m = "next"
                THEN [req[r] EXCEPT !.pc = "refreshHandler", !.passedAuth = TRUE]
                ELSE Done(req[r], Resp(401, m))
     IN  /\ req' = [req EXCEPT ![r] = out]
         /\ hist' = hist
  /\ UNCHANGED <<users, blacklist, pending, now, ticks>>

\* POST /auth/refresh, the controller up to its query: jwt.verify again,
\* findByRefreshToken again.
RefreshFind(r) ==
  /\ req[r].pc = "refreshHandler"
  /\ LET verdict == JwtVerify(req[r].bodyRefresh, "JWT_REFRESH_SECRET", now)
         out == IF verdict = "JsonWebTokenError"
                THEN Done(req[r], Resp(401, MsgRefreshInvalid))
                ELSE IF verdict = "TokenExpiredError"
                THEN Done(req[r], Resp(401, MsgRefreshExpired))
                ELSE [req[r] EXCEPT !.pc = "refreshRotate",
                                    !.doc = findByRefreshToken(users, req[r].bodyRefresh)]
     IN  req' = [req EXCEPT ![r] = out]
  /\ UNCHANGED <<users, blacklist, pending, now, ticks, hist>>

\* POST /auth/refresh, the controller after its query: the checks of the
\* account, generateAccessToken, generateRefreshToken (push, save not
\* awaited) and removeRefreshToken (assign, save).  That second save finds
\* the first one in flight and is rejected, the handler's catch answers 500;
\* the save in flight then writes the array as the handler left it.
\* Were the second save accepted, the handler would go on to
\* addRefreshToken, addToBlacklist and the 200 response.
RefreshRotate(r) ==
  /\ req[r].pc = "refreshRotate"
  /\ LET old == req[r].bodyRefresh
         user == req[r].doc
         access == generateAccessToken(user, now)
         g == generateRefreshToken(user, now)
         removed == removeRefreshToken(g.doc, old)
         added == addRefreshToken(removed, g.token)
         fail(m) == /\ req' = [req EXCEPT ![r] = Done(req[r], Resp(401, m))]
                    /\ UNCHANGED <<users, blacklist, pending, hist>>
     IN  IF user = NoDoc THEN fail(MsgRefreshInvalid)
         ELSE IF ~user.isActive THEN fail(MsgDeactivated)
         ELSE IF SaveRejected(g.saving)
         THEN /\ req' = [req EXCEPT ![r] = Done(req[r], Resp(500, MsgRefreshError))]
              /\ pending' = pending \cup
                   {[id |-> user.id, kind |-> "set", token |-> g.token,
                     tokens |-> removed.refreshTokens, v |-> user.v,
                     removed |-> {old}, added |-> {g.token} \ {old}]}
              /\ UNCHANGED <<users, blacklist, hist>>
         ELSE /\ users' = [users EXCEPT ![user.id] =
                             [@ EXCEPT !.refreshTokens = added.refreshTokens,
                                       !.v = @ + 1]]
              /\ blacklist' = addToBlacklist(blacklist, old, user.id, "refresh",
                                             old.exp, "refresh")
              /\ req' = [req EXCEPT ![r] =
                           Done(req[r], RespTokens(MsgRefreshed, access, g.token))]
              /\ hist' = [hist EXCEPT
                            !.returned = @ \cup {g.token},
                            !.access = @ \cup {access},
                            !.expect = (@ \ {old}) \cup {g.token},
                            !.revoked = @ \cup {old},
                            !.doubleGrant = @ \/ old \in hist.granted,
                            !.granted = @ \cup {old}]
              /\ UNCHANGED pending
  /\ UNCHANGED <<now, ticks>>

\* ------------------------------------ authenticateToken (bearer token)
\* authenticateToken, first part: the Authorization header, isBlacklisted.
AuthEnter(r, rq) ==
  /\ Takes(r)
  /\ LET out == IF rq.bearer = NoToken
                THEN Done([rq EXCEPT !.anonymous = TRUE], Resp(401, MsgTokenRequired))
                ELSE IF isBlacklisted(blacklist, rq.bearer)
                THEN Done(rq, Resp(401, MsgTokenRevoked))
                ELSE [rq EXCEPT !.pc = "authResolve"]
     IN  /\ req' = [req EXCEPT ![r] = out]
         /\ hist' = hist
  /\ UNCHANGED <<users, blacklist, pending, now, ticks>>

AuthBlacklistCheck(r, op, bearer, bodyAccess, bodyRefresh) ==
  AuthEnter(r, [Arrive(op) EXCEPT !.bearer = bearer, !.bodyAccess = bodyAccess,
                                  !.bodyRefresh = bodyRefresh])

AuthOutcomeLockIgnored(us, tok, t) ==
  LET verdict == JwtVerify(tok, "JWT_SECRET", t)
      user == findById(us, tok.id)
  IN  IF verdict = "JsonWebTokenError" THEN MsgTokenInvalid
      ELSE IF verdict = "TokenExpiredError" THEN MsgTokenExpired
      ELSE IF tok.type # "access" THEN MsgTokenType
      ELSE IF user = NoDoc THEN MsgUserNotFound
      ELSE IF ~user.isActive THEN MsgDeactivated
      ELSE "next"

AuthOutcomeAnyClass(us, tok, t) ==
  LET verdict == JwtVerify(tok, "JWT_SECRET", t)
      user == findById(us, tok.id)
  IN  IF verdict = "JsonWebTokenError" THEN MsgTokenInvalid
      ELSE IF verdict = "TokenExpiredError" THEN MsgTokenExpired
      ELSE IF user = NoDoc THEN MsgUserNotFound
      ELSE IF ~user.isActive THEN MsgDeactivated
      ELSE IF isLocked(user, t) THEN MsgLocked
      ELSE "next"

AuthOutcomeExpiredAsInvalid(us, tok, t) ==
  LET verdict == JwtVerify(tok, "JWT_SECRET", t)
      user == findById(us, tok.id)
  IN  IF verdict # "ok" THEN MsgTokenInvalid
      ELSE IF tok.type # "access" THEN MsgTokenType
      ELSE IF user = NoDoc THEN MsgUserNotFound
      ELSE IF ~user.isActive THEN MsgDeactivated
      ELSE IF isLocked(user, t) THEN MsgLocked
      ELSE "next"

\* What authenticateToken answers after the blacklist check.
AuthOutcome(us, tok, t) ==
  LET verdict == JwtVerify(tok, "JWT_SECRET", t)
      user == findById(us, tok.id)
  IN  IF verdict = "JsonWebTokenError" THEN MsgTokenInvalid
      ELSE IF verdict = "TokenExpiredError" THEN MsgTokenExpired
      ELSE IF tok.type # "access" THEN MsgTokenType
      ELSE IF user = NoDoc THEN MsgUserNotFound
      ELSE IF ~user.isActive THEN MsgDeactivated
      ELSE IF isLocked(user, t) THEN MsgLocked
      ELSE "next"

LogoutPromisesAll(rq) == {"blacklistAccess", "blacklistRefresh", "save"}

\* The saves and inserts POST /auth/logout starts before Promise.all.
LogoutPromises(rq) ==
  (IF rq.bodyAccess # NoToken THEN {"blacklistAccess"} ELSE {})
  \cup (IF rq.bodyRefresh # NoToken THEN {"blacklistRefresh", "save"} ELSE {})

\* The 401 of authenticateToken: success false and the message, and for an
\* expired token the code TOKEN_EXPIRED.
AuthReject(message) ==
  [Resp(401, message) EXCEPT
     !.code = IF message = MsgTokenExpired THEN "TOKEN_EXPIRED" ELSE ""]

\* authenticateToken, second part: jwt.verify, the class tag, findById, the
\* checks of the account; req.user is the document read here.  For logout
\* the controller then starts its promises; with none to wait for it
\* answers at once.
AuthResolve(r) ==
  /\ req[r].pc = "authResolve"
  /\ LET m == AuthOutcome(users, req[r].bearer, now)
         user == findById(users, req[r].bearer.id)
         rq == [req[r] EXCEPT !.doc = user, !.passedAuth = TRUE]
         out == IF m # "next" THEN Done(req[r], AuthReject(m))
                ELSE IF req[r].op = "logoutAll" THEN [rq EXCEPT !.pc = "logoutAll"]
                ELSE IF req[r].op = "getProfile" THEN [rq EXCEPT !.pc = "getProfile"]
                ELSE IF req[r].op = "updateProfile" THEN [rq EXCEPT !.pc = "updateProfile"]
                ELSE IF req[r].op \in {"createExportJob", "getExportJobStatus", "downloadExport"}
                THEN [rq EXCEPT !.pc = req[r].op]
                ELSE IF req[r].op = "exports" THEN Done(rq, Resp(404, MsgRouteNotFound))
                ELSE IF req[r].op = "getDevices" THEN [rq EXCEPT !.pc = "cacheMiddleware"]
                ELSE IF req[r].op = "createDevice" THEN [rq EXCEPT !.pc = "createDevice"]
                ELSE IF req[r].op = "createLog" THEN [rq EXCEPT !.pc = "createLog"]
                ELSE IF req[r].op \in {"getLogs", "getUsage"}
                THEN [rq EXCEPT !.pc = "cacheLogs"]
                ELSE IF req[r].op \in {"updateDevice", "deleteDevice", "updateHeartbeat"}
                THEN [rq EXCEPT !.pc = "invalidateDeviceCache"]
                ELSE IF LogoutPromises(rq) = {} THEN Done(rq, Resp(200, MsgLoggedOut))
                ELSE [rq EXCEPT !.pc = "logout", !.todo = LogoutPromises(rq)]
     IN  /\ req' = [req EXCEPT ![r] = out]
         /\ hist' = hist
  /\ UNCHANGED <<users, blacklist, pending, now, ticks>>

\* GET /auth/profile, the protected handler: findById without password and
\* refreshTokens, 200 with the document.
GetProfile(r) ==
  /\ req[r].pc = "getProfile"
  /\ LET user == Select(findById(users, req[r].doc.id), {"password", "refreshTokens"})
     IN  req' = [req EXCEPT ![r] = Done(req[r], RespUser("", toJSON(user)))]
  /\ UNCHANGED <<users, blacklist, pending, now, ticks, hist>>

\* ------------------------------------------- WebSocket handshake
\* What the io.use middleware of the WebSocket server answers: the message
\* of the error it passes to next, or "next" when it accepts the socket.
WsOutcome(us, tok, t) ==
  LET verdict == JwtVerify(tok, "JWT_SECRET", t)
      user == findById(us, tok.id)
  IN  IF tok = NoToken THEN MsgWsTokenRequired
      ELSE IF verdict # "ok" THEN MsgWsFailed
      ELSE IF tok.type # "access" THEN MsgWsTokenType
      ELSE IF user = NoDoc \/ ~user.isActive THEN MsgWsUser
      ELSE "next"

\* A client opens a socket with a token; an accepted socket is connected.
WsHandshake(tok) ==
  /\ WsOutcome(users, tok, now) = "next"
  /\ sockets' = sockets \cup {[userId |-> tok.id, token |-> tok]}
  /\ UNCHANGED <<users, blacklist, pending, req, now, ticks, nreq, hist, env, swept, gone, socketState, edge>>

\* ------------------------------------------------------------ logout
\* Promise.all is settled when nothing is left to wait for: 200, or 500
\* when the save was rejected.
LogoutSettle(rq, todo, failed) ==
  IF todo # {} THEN [rq EXCEPT !.todo = todo, !.failed = failed]
  ELSE IF failed THEN Done(rq, Resp(500, MsgLogoutError))
  ELSE Done(rq, Resp(200, MsgLoggedOut))

\* POST /auth/logout: one addToBlacklist is applied by the store.  The
\* token is only decoded, not verified; userId is the authenticated user.
LogoutBlacklist(r, which) ==
  /\ req[r].pc = "logout"
  /\ which \in req[r].todo \cap {"blacklistAccess", "blacklistRefresh"}
  /\ LET tok == IF which = "blacklistAccess" THEN req[r].bodyAccess ELSE req[r].bodyRefresh
         type == IF which = "blacklistAccess" THEN "access" ELSE "refresh"
         out == LogoutSettle(req[r], req[r].todo \ {which}, req[r].failed)
     IN  /\ blacklist' = addToBlacklist(blacklist, tok, req[r].doc.id, type, tok.exp, "logout")
         /\ req' = [req EXCEPT ![r] = out]
         /\ hist' = [hist EXCEPT !.revoked = @ \cup {tok}]
  /\ UNCHANGED <<users, pending, now, ticks>>

\* The save of an assigned refreshTokens array: nothing to write when the
\* array is as it was read; else $set under the version read.
\* "ok" (with the record to store) or "VersionError".
SaveTokens(stored, read, tokens) ==
  IF tokens = read.refreshTokens THEN [result |-> "ok", record |-> stored]
  ELSE IF VersionMatches(stored, read.v)
  THEN [result |-> "ok",
        record |-> [stored EXCEPT !.refreshTokens = tokens, !.v = @ + 1]]
  ELSE [result |-> "VersionError", record |-> stored]

\* POST /auth/logout: the save of req.user.removeRefreshToken(refreshToken)
\* is applied by the store, or rejected.
LogoutSave(r) ==
  /\ req[r].pc = "logout"
  /\ "save" \in req[r].todo
  /\ LET doc == req[r].doc
         tok == req[r].bodyRefresh
         w == SaveTokens(users[doc.id], doc, removeRefreshToken(doc, tok).refreshTokens)
         out == LogoutSettle(req[r], req[r].todo \ {"save"},
                             req[r].failed \/ w.result = "VersionError")
     IN  /\ users' = [users EXCEPT ![doc.id] = w.record]
         /\ req' = [req EXCEPT ![r] = out]
         /\ hist' = [hist EXCEPT
                       !.expect = IF w.record # users[doc.id] THEN @ \ {tok} ELSE @]
  /\ UNCHANGED <<blacklist, pending, now, ticks>>

\* -------------------------------------------------------- logout-all
\* POST /auth/logout-all: req.user.refreshTokens = [], save, 200; 500 when
\* the save is rejected.
LogoutAllSave(r) ==
  /\ req[r].pc = "logoutAll"
  /\ LET doc == req[r].doc
         w == SaveTokens(users[doc.id], doc, <<>>)
         out == IF w.result = "ok" THEN Done(req[r], Resp(200, MsgLoggedOutAll))
                ELSE Done(req[r], Resp(500, MsgLogoutError))
     IN  /\ users' = [users EXCEPT ![doc.id] = w.record]
         /\ req' = [req EXCEPT ![r] = out]
         /\ hist' = [hist EXCEPT
                       !.expect = IF w.record # users[doc.id]
                                  THEN @ \ Range(doc.refreshTokens) ELSE @,
                       !.invalidated = IF w.result = "ok"
                                       THEN @ \cup {t \in hist.returned : t.id = doc.id}
                                       ELSE @]
  /\ UNCHANGED <<blacklist, pending, now, ticks>>

\* ------------------------------------------------------ specifications
\* Logins one after the other.
NextLogin ==
  \/ \E r \in Slots, e \in Emails, p \in Passwords :
       Quiet /\ LoginFind(r, e, p) /\ UNCHANGED <<nreq, aside>>
  \/ \E r \in Slots : LoginSave(r) /\ UNCHANGED <<nreq, aside>>
  \/ \E p \in pending : PushLands(p) /\ UNCHANGED <<nreq, aside>>
  \/ \E p \in pending : SaveFails(p) /\ UNCHANGED <<nreq, aside>>
  \/ \E d \in TickSteps : Tick(d, MaxTicks) /\ UNCHANGED <<nreq, aside>>

SpecLogin == Init /\ [][NextLogin]_vars

\* The requests of clients that know their password.  The bearer is a
\* token some response returned, or none; a logout request carries in its
\* body the access token or none, and a refresh token or none.
Begin(r) ==
  \/ LoginFind(r, "a@x.com", "Secret123")
  \/ \E tok \in hist.returned : RefreshBlacklistCheck(r, tok)
  \/ \E op \in {"logout", "logoutAll"}, bearer \in hist.access \cup {NoToken},
        ba \in hist.access \cup {NoToken}, br \in hist.returned \cup {NoToken} :
       /\ ba \in IF op = "logout" THEN {NoToken, bearer} ELSE {NoToken}
       /\ br \in IF op = "logout" THEN hist.returned \cup {NoToken} ELSE {NoToken}
       /\ AuthBlacklistCheck(r, op, bearer, ba, br)

Step(r) ==
  \/ LoginSave(r)
  \/ RefreshAuth(r)
  \/ RefreshFind(r)
  \/ RefreshRotate(r)
  \/ AuthResolve(r)
  \/ \E which \in {"blacklistAccess", "blacklistRefresh"} : LogoutBlacklist(r, which)
  \/ LogoutSave(r)
  \/ LogoutAllSave(r)

Store ==
  \/ \E p \in pending : PushLands(p)
  \/ \E p \in pending : SetLands(p)

\* Requests one after the other: a request arrives when none is being handled.
NextSeq ==
  \/ \E r \in Slots : Quiet /\ nreq < MaxSeqRequests /\ nreq' = nreq + 1 /\ Begin(r)
                       /\ UNCHANGED aside
  \/ \E r \in Slots : Step(r) /\ UNCHANGED <<nreq, aside>>
  \/ Store /\ UNCHANGED <<nreq, aside>>
  \/ \E d \in TickSteps : Tick(d, MaxSessionTicks) /\ UNCHANGED <<nreq, aside>>
  \/ \E tok \in hist.access : Quiet /\ WsHandshake(tok)

SpecSeq == Init /\ [][NextSeq]_vars

\* Requests handled concurrently.
Next ==
  \/ \E r \in Slots : nreq < MaxRequests /\ nreq' = nreq + 1 /\ Begin(r)
                       /\ UNCHANGED aside
  \/ \E r \in Slots : Step(r) /\ UNCHANGED <<nreq, aside>>
  \/ Store /\ UNCHANGED <<nreq, aside>>
  \/ \E d \in TickSteps : Tick(d, MaxSessionTicks) /\ UNCHANGED <<nreq, aside>>

Spec == Init /\ [][Next]_vars

\* What a step adds to the history of removals: the refresh tokens a stored
\* membership held before the step and does not hold after it.
Left == UNION {Range(users[i].refreshTokens) \ Range(users'[i].refreshTokens) : i \in Ids}

Observed == gone' = gone \cup Left /\ UNCHANGED <<env, sockets, swept, socketState, edge>>

\* The auth routes, requests overlapping, with the removals recorded.
NextMembers ==
  \/ \E r \in Slots : nreq < MaxRequests /\ nreq' = nreq + 1 /\ Begin(r) /\ Observed
  \/ \E r \in Slots : Step(r) /\ nreq' = nreq /\ Observed
  \/ Store /\ nreq' = nreq /\ Observed
  \/ \E d \in TickSteps : Tick(d, MaxSessionTicks) /\ nreq' = nreq /\ Observed

SpecMembers == Init /\ [][NextMembers]_vars

\* ------------------------------------------- the blacklist over time
\* A run of TokenBlacklist.cleanExpired().
Sweep ==
  /\ Len(swept) < MaxSweeps
  /\ LET run == cleanExpired(blacklist, now)
     IN  /\ blacklist' = run.remaining
         /\ swept' = Append(swept, run.deletedCount)
  /\ UNCHANGED <<users, pending, req, now, ticks, nreq, hist, env, sockets, gone, socketState, edge>>

\* The store's TTL monitor deletes the entries that have expired.
TtlExpire ==
  /\ ttlExpired(blacklist, now) # {}
  /\ blacklist' = blacklist \ ttlExpired(blacklist, now)
  /\ UNCHANGED <<users, pending, req, now, ticks, nreq, hist, env, sockets, swept, gone, socketState, edge>>

\* Login and logout, one request at a time, while the clock passes the
\* expiry of access tokens and the blacklist is swept.
NextRegistry ==
  \/ \E r \in Slots :
       /\ Quiet /\ nreq < MaxRegistryRequests /\ nreq' = nreq + 1
       /\ LoginFind(r, "a@x.com", "Secret123")
       /\ UNCHANGED aside
  \/ \E r \in Slots, bearer \in hist.access, withAccess \in BOOLEAN,
        br \in hist.returned \cup {NoToken} :
       /\ Quiet /\ nreq < MaxRegistryRequests /\ nreq' = nreq + 1
       /\ AuthBlacklistCheck(r, "logout", bearer,
                             IF withAccess THEN bearer ELSE NoToken, br)
       /\ UNCHANGED aside
  \/ \E r \in Slots : LoginSave(r) /\ UNCHANGED <<nreq, aside>>
  \/ \E r \in Slots : AuthResolve(r) /\ UNCHANGED <<nreq, aside>>
  \/ \E r \in Slots, which \in {"blacklistAccess", "blacklistRefresh"} :
       LogoutBlacklist(r, which) /\ UNCHANGED <<nreq, aside>>
  \/ \E r \in Slots : LogoutSave(r) /\ UNCHANGED <<nreq, aside>>
  \/ \E p \in pending : PushLands(p) /\ UNCHANGED <<nreq, aside>>
  \/ Sweep
  \/ TtlExpire
  \/ \E d \in RegistryTickSteps : Tick(d, MaxRegistryTicks) /\ UNCHANGED <<nreq, aside>>

SpecRegistry == Init /\ [][NextRegistry]_vars

\* The validators, asked with tokens of every make, one request at a time.
\* The keys a token can be signed with: the two secrets, and any other key.
Keys == {"access-secret", "refresh-secret", "forged"}

\* The tokens a client can present: of either class, naming the account or
\* no account, signed with any key.
ProbeTokens ==
  {Signed(id, type, 0, key) : id \in Ids \cup {NoUser}, type \in {"access", "refresh"},
                              key \in Keys}

\* The states the validators can meet: the account active or not, locked or
\* not, holding a refresh token or none; the blacklist holding the account's
\* tokens or not; the two secrets different or the same.
InitValidate ==
  /\ env \in {[JWT_SECRET |-> "access-secret", JWT_REFRESH_SECRET |-> k] :
                k \in {"access-secret", "refresh-secret"}}
  /\ \E active \in BOOLEAN, locked \in BOOLEAN, holds \in BOOLEAN :
       users = [i \in Ids |->
                  [NewUser(i, "a@x.com", "Secret123", active) EXCEPT
                     !.loginAttempts = IF locked THEN LockThreshold ELSE 0,
                     !.lockUntil = IF locked THEN LockTime \div 2 ELSE Null,
                     !.refreshTokens = IF holds THEN <<Token(i, "refresh", 0)>> ELSE <<>>,
                     !.v = IF holds THEN 1 ELSE 0]]
  /\ \E listed \in SUBSET {Token(i, type, 0) : i \in Ids, type \in {"access", "refresh"}} :
       blacklist = {[token |-> tok, userId |-> tok.id, type |-> tok.type,
                     expiresAt |-> tok.exp, reason |-> "logout"] : tok \in listed}
  /\ pending = {}
  /\ req = [r \in Slots |-> Idle]
  /\ now = 0
  /\ ticks = 0
  /\ nreq = 0
  /\ sockets = {}
  /\ swept = <<>>
  /\ gone = {}
  /\ InitEdge
  /\ hist = [fails |-> 0, logins |-> 0,
             unknownSignal |-> {}, wrongPasswordSignal |-> {},
             returned |-> {}, access |-> {}, invalidated |-> {},
             presented |-> {}, granted |-> {}, doubleGrant |-> FALSE,
             expect |-> UNION {Range(users[i].refreshTokens) : i \in Ids},
             revoked |-> {e.token : e \in blacklist}]

NextValidate ==
  \/ \E r \in Slots, tok \in ProbeTokens \cup {NoToken} :
       /\ Quiet /\ nreq < MaxProbes /\ nreq' = nreq + 1
       /\ AuthBlacklistCheck(r, "getProfile", tok, NoToken, NoToken)
       /\ UNCHANGED aside
  \/ \E r \in Slots : AuthResolve(r) /\ UNCHANGED <<nreq, aside>>
  \/ \E r \in Slots : GetProfile(r) /\ UNCHANGED <<nreq, aside>>
  \/ \E r \in Slots, tok \in ProbeTokens :
       /\ Quiet /\ nreq < MaxProbes /\ nreq' = nreq + 1
       /\ RefreshBlacklistCheck(r, tok)
       /\ UNCHANGED aside
  \/ \E r \in Slots : RefreshAuth(r) /\ UNCHANGED <<nreq, aside>>
  \/ \E r \in Slots : RefreshFind(r) /\ UNCHANGED <<nreq, aside>>
  \/ \E r \in Slots : RefreshRotate(r) /\ UNCHANGED <<nreq, aside>>
  \/ \E p \in pending : SetLands(p) /\ UNCHANGED <<nreq, aside>>
  \/ \E tok \in ProbeTokens \cup {NoToken} : Quiet /\ WsHandshake(tok)
  \/ \E d \in TickSteps : Tick(d, MaxProbeTicks) /\ UNCHANGED <<nreq, aside>>

SpecValidate == InitValidate /\ [][NextValidate]_vars

\* ------------------------------------------- signup, profile update
AccountIds == 1..(MaxSignupRequests + 1)
SignupEmails == {"a@x.com", "A@X.com", "b@x.com"}

\* The _id of the next record created.
NewId(us) == CHOOSE i \in DOMAIN us : us[i] = NoDoc /\ \A j \in DOMAIN us : us[j] = NoDoc => i <= j

\* POST /auth/signup: findOne({ email }); 400 when a record is found.
SignupFind(r, name, email, password, role) ==
  /\ Takes(r)
  /\ LET rq == [Arrive("signup") EXCEPT !.name = name, !.email = email,
                                        !.password = password, !.role = role]
         existingUser == findOne(users, Lowercase(email))
         out == IF existingUser # NoDoc THEN Done(rq, Resp(400, MsgEmailExists))
                ELSE [rq EXCEPT !.pc = "signupSave"]
     IN  req' = [req EXCEPT ![r] = out]
  /\ UNCHANGED <<users, blacklist, pending, now, ticks, hist>>

\* new User({ name, email, password, role: role || 'user' }): the document
\* before its first save, the password path holding what the body gave.
NewDocument(id, name, email, password, role) ==
  [NewUser(id, Lowercase(email), password, TRUE) EXCEPT
     !.name = name, !.password = Plain(password),
     !.role = IF role = "" THEN "user" ELSE role]

\* POST /auth/signup: new User(...), save, 201; 500 when the save throws.
SignupSave(r) ==
  /\ req[r].pc = "signupSave"
  /\ \E i \in DOMAIN users : users[i] = NoDoc
  /\ LET user == preSave(NewDocument(NewId(users), req[r].name, req[r].email,
                                     req[r].password, req[r].role), TRUE)
     IN  IF DuplicateKey(users, user.id, user.email)
         THEN /\ req' = [req EXCEPT ![r] = Done(req[r], Resp(500, MsgSignupError))]
              /\ users' = users
         ELSE /\ req' = [req EXCEPT ![r] = Done(req[r], Resp(201, MsgRegistered))]
              /\ users' = [users EXCEPT ![user.id] = user]
  /\ UNCHANGED <<blacklist, pending, now, ticks, hist>>

\* PUT /auth/profile: findById(req.user._id), the name of the body set on
\* the document, then the comparison of the email of the body with the one
\* of the record.
UpdateProfileLoad(r) ==
  /\ req[r].pc = "updateProfile"
  /\ LET user == findById(users, req[r].doc.id)
         email == req[r].email
         out == IF user = NoDoc THEN Done(req[r], Resp(500, MsgProfileError))
                ELSE IF email # "" /\ email # user.email
                THEN [req[r] EXCEPT !.pc = "updateProfileCheck", !.doc = user]
                ELSE [req[r] EXCEPT !.pc = "updateProfileSave", !.doc = user]
     IN  req' = [req EXCEPT ![r] = out]
  /\ UNCHANGED <<users, blacklist, pending, now, ticks, hist>>

\* PUT /auth/profile: findOne({ email }); 400 when a record is found.
UpdateProfileCheck(r) ==
  /\ req[r].pc = "updateProfileCheck"
  /\ LET existingUser == findOne(users, Lowercase(req[r].email))
         out == IF existingUser # NoDoc THEN Done(req[r], Resp(400, MsgEmailTaken))
                ELSE [req[r] EXCEPT !.pc = "updateProfileSave", !.todo = {"email"}]
     IN  req' = [req EXCEPT ![r] = out]
  /\ UNCHANGED <<users, blacklist, pending, now, ticks, hist>>

\* PUT /auth/profile: user.email = email when it passed the check, save of
\* the paths that were set, 200 with user.toJSON(); 500 when the save
\* throws.  The document was read without the password path.
UpdateProfileSave(r) ==
  /\ req[r].pc = "updateProfileSave"
  /\ LET id == req[r].doc.id
         name == IF req[r].name # "" THEN req[r].name ELSE req[r].doc.name
         email == IF "email" \in req[r].todo THEN Lowercase(req[r].email)
                  ELSE req[r].doc.email
         user == [Select(req[r].doc, {"password"}) EXCEPT !.name = name, !.email = email]
     IN  IF email # req[r].doc.email /\ DuplicateKey(users, id, email)
         THEN /\ req' = [req EXCEPT ![r] = Done(req[r], Resp(500, MsgProfileError))]
              /\ users' = users
         ELSE /\ req' = [req EXCEPT ![r] =
                           Done(req[r], RespUser(MsgProfileUpdated, toJSON(user)))]
              /\ users' = [users EXCEPT
                             ![id].name = IF name # req[r].doc.name THEN name ELSE @,
                             ![id].email = IF email # req[r].doc.email THEN email ELSE @]
  /\ UNCHANGED <<blacklist, pending, now, ticks, hist>>

\* One account exists; the others are created by Signup.
InitSignup ==
  /\ users = [i \in AccountIds |->
                IF i = 1 THEN NewUser(i, "a@x.com", "Secret123", TRUE) ELSE NoDoc]
  /\ blacklist = {}
  /\ pending = {}
  /\ req = [r \in Slots |-> Idle]
  /\ now = 0
  /\ ticks = 0
  /\ nreq = 0
  /\ env = [JWT_SECRET |-> "access-secret", JWT_REFRESH_SECRET |-> "refresh-secret"]
  /\ sockets = {}
  /\ swept = <<>>
  /\ gone = {}
  /\ InitEdge
  /\ hist = [fails |-> 0, logins |-> 0,
             unknownSignal |-> {}, wrongPasswordSignal |-> {},
             returned |-> {}, access |-> {}, invalidated |-> {},
             presented |-> {}, granted |-> {}, doubleGrant |-> FALSE,
             expect |-> {}, revoked |-> {}]

\* Signup and profile-update requests handled concurrently; a profile update
\* carries the access token of an account that exists.
NextSignup ==
  \/ \E r \in Slots, email \in SignupEmails :
       /\ nreq < MaxSignupRequests /\ nreq' = nreq + 1
       /\ SignupFind(r, "John Doe", email, "Secret123", "")
       /\ UNCHANGED aside
  \/ \E r \in Slots : SignupSave(r) /\ UNCHANGED <<nreq, aside>>
  \/ \E r \in Slots, i \in AccountIds, name \in {"", "Jane Doe"},
        email \in SignupEmails \cup {""} :
       /\ users[i] # NoDoc
       /\ nreq < MaxSignupRequests /\ nreq' = nreq + 1
       /\ AuthEnter(r, [Arrive("updateProfile") EXCEPT
                          !.bearer = Token(i, "access", now),
                          !.name = name, !.email = email])
       /\ UNCHANGED aside
  \/ \E r \in Slots : AuthResolve(r) /\ UNCHANGED <<nreq, aside>>
  \/ \E r \in Slots : UpdateProfileLoad(r) /\ UNCHANGED <<nreq, aside>>
  \/ \E r \in Slots : UpdateProfileCheck(r) /\ UNCHANGED <<nreq, aside>>
  \/ \E r \in Slots : UpdateProfileSave(r) /\ UNCHANGED <<nreq, aside>>

SpecSignup == InitSignup /\ [][NextSignup]_vars

\* --------------------------------------- every route of /auth, in turn
JourneyIds == 1..2
Roles == {"", "admin"}

\* No account exists; accounts are created by Signup.
InitJourney ==
  /\ users = [i \in JourneyIds |-> NoDoc]
  /\ blacklist = {}
  /\ pending = {}
  /\ req = [r \in Slots |-> Idle]
  /\ now = 0
  /\ ticks = 0
  /\ nreq = 0
  /\ env = [JWT_SECRET |-> "access-secret", JWT_REFRESH_SECRET |-> "refresh-secret"]
  /\ sockets = {}
  /\ swept = <<>>
  /\ gone = {}
  /\ InitEdge
  /\ hist = [fails |-> 0, logins |-> 0,
             unknownSignal |-> {}, wrongPasswordSignal |-> {},
             returned |-> {}, access |-> {}, invalidated |-> {},
             presented |-> {}, granted |-> {}, doubleGrant |-> FALSE,
             expect |-> {}, revoked |-> {}]

\* The requests of a client, one after the other: it signs up, logs in with
\* any email and password, and uses the tokens it was given on every route.
BeginJourney(r) ==
  \/ \E email \in SignupEmails, password \in Passwords, role \in Roles :
       SignupFind(r, "John Doe", email, password, role)
  \/ \E email \in SignupEmails, password \in Passwords : LoginFind(r, email, password)
  \/ \E tok \in hist.returned : RefreshBlacklistCheck(r, tok)
  \/ \E bearer \in hist.access, withAccess \in BOOLEAN, br \in hist.returned \cup {NoToken} :
       AuthBlacklistCheck(r, "logout", bearer, IF withAccess THEN bearer ELSE NoToken, br)
  \/ \E op \in {"logoutAll", "getProfile"}, bearer \in hist.access :
       AuthBlacklistCheck(r, op, bearer, NoToken, NoToken)
  \/ \E bearer \in hist.access, name \in {"", "Jane Doe"}, email \in SignupEmails \cup {""} :
       AuthEnter(r, [Arrive("updateProfile") EXCEPT
                       !.bearer = bearer, !.name = name, !.email = email])

NextJourney ==
  \/ \E r \in Slots : Quiet /\ nreq < MaxJourneyRequests /\ nreq' = nreq + 1
                       /\ BeginJourney(r) /\ UNCHANGED aside
  \/ \E r \in Slots : SignupSave(r) /\ UNCHANGED <<nreq, aside>>
  \/ \E r \in Slots : Step(r) /\ UNCHANGED <<nreq, aside>>
  \/ \E r \in Slots : GetProfile(r) /\ UNCHANGED <<nreq, aside>>
  \/ \E r \in Slots : UpdateProfileLoad(r) /\ UNCHANGED <<nreq, aside>>
  \/ \E r \in Slots : UpdateProfileCheck(r) /\ UNCHANGED <<nreq, aside>>
  \/ \E r \in Slots : UpdateProfileSave(r) /\ UNCHANGED <<nreq, aside>>
  \/ Store /\ UNCHANGED <<nreq, aside>>

SpecJourney == InitJourney /\ [][NextJourney]_vars

\* ------------------------------------------------------------ claims
\* ------------------------------------------------- the export routes
\* The devices an export can be asked for.
DeviceIds == {"d1", "d2"}

\* The name exportService gives the file of an export: the kind, the device
\* and the time it was written.
FileName(deviceId, t) == <<"device-logs", deviceId, t>>

\* A response that sends a file.
RespFile(file) == [Resp(200, "") EXCEPT !.file = file]

\* GET /exports/<file>.  express.static(UPLOAD_PATH) is mounted on /exports
\* before the routers: it sends the file when UPLOAD_PATH has it, and calls
\* next() when not; the request then meets router.use(authenticateToken) of
\* the export router.
ServeStatic(r, bearer, file) ==
  LET rq == [Arrive("exports") EXCEPT !.bearer = bearer, !.file = file,
                                      !.anonymous = bearer = NoToken]
  IN  IF file \in uploads
      THEN /\ Takes(r)
           /\ req' = [req EXCEPT ![r] = Done(rq, RespFile(file))]
           /\ UNCHANGED <<users, blacklist, pending, now, ticks, hist>>
      ELSE AuthEnter(r, rq)

MsgExportDenied == "Device not found or access denied"

\* The job exportService.createExportJob puts into its map: pending, no
\* progress, no result (fileName is result.fileName), no error.
NewJob(id, userId, deviceId) ==
  [id |-> id, userId |-> userId, status |-> "pending", progress |-> 0,
   device |-> deviceId, fileName |-> NoFile, error |-> NoError]

\* processExportJob up to its first await: it runs in the call that
\* createExportJob makes, before createExportJob returns.
processExportJobStart(job) == [job EXCEPT !.status = "processing", !.progress = 10]

\* A processExportJob that forgets the progress of a completed job.
processExportJobCompletedStale(job, fileName) ==
  [job EXCEPT !.status = "completed", !.fileName = fileName]

\* processExportJob after the export returned its result.
processExportJobCompleted(job, fileName) ==
  [job EXCEPT !.status = "completed", !.progress = 100, !.fileName = fileName]

\* processExportJob's catch block.
processExportJobFailed(job, message) ==
  [job EXCEPT !.status = "failed", !.error = message]

\* POST /exports/jobs: exportService.createExportJob puts the job into the
\* map and starts processExportJob without awaiting it; 202.
CreateExportJob(r) ==
  /\ req[r].pc = "createExportJob"
  /\ exportJobs' = exportJobs \cup
       {processExportJobStart(
          NewJob(Cardinality(exportJobs) + 1, req[r].doc.id, req[r].device))}
  /\ req' = [req EXCEPT ![r] = Done(req[r], Resp(202, MsgExportCreated))]
  /\ UNCHANGED <<users, blacklist, pending, now, ticks, hist, uploads>>

\* The rest of processExportJob, in the background: the export finds the
\* device among the caller's own, writes its file into UPLOAD_PATH and the
\* job is completed with the file name; or the export throws (no such device
\* of the caller, or the store or the disk fails) and the job is failed.
ProcessExportJob(job) ==
  /\ job.status = "processing"
  /\ \/ LET fileName == FileName(job.device, now)
        IN  /\ \E d \in devices : d.id = job.device /\ d.owner_id = job.userId
            /\ uploads' = uploads \cup {fileName}
            /\ exportJobs' = (exportJobs \ {job}) \cup
                 {processExportJobCompleted(job, fileName)}
     \/ /\ exportJobs' = (exportJobs \ {job}) \cup
             {processExportJobFailed(job, MsgExportDenied)}
        /\ uploads' = uploads
  /\ UNCHANGED <<users, blacklist, pending, req, now, ticks, nreq, hist, env, sockets, swept, gone, socketState,
                 limiterState, deviceState>>

\* GET /exports/download/:fileName: 404 when UPLOAD_PATH has no such file,
\* 403 when no job of the caller produced it, else the file.
DownloadExport(r) ==
  /\ req[r].pc = "downloadExport"
  /\ LET fileName == req[r].file
         hasAccess == \E job \in exportJobs :
                        job.userId = req[r].doc.id /\ job.fileName = fileName
         resp == IF fileName \notin uploads THEN Resp(404, MsgFileNotFound)
                 ELSE IF ~hasAccess THEN Resp(403, MsgAccessDenied)
                 ELSE RespFile(fileName)
     IN  req' = [req EXCEPT ![r] = Done(req[r], resp)]
  /\ UNCHANGED <<users, blacklist, pending, now, ticks, hist, uploads, exportJobs>>

\* The job of an id, in a state that has it.
JobOf(jobs, id) == CHOOSE job \in jobs : job.id = id

JobIds(jobs) == {job.id : job \in jobs}

Settled(job) == job.status \in {"completed", "failed"}

MsgJobNotFound == "Export job not found"

\* The job as getExportJobStatus shows it: id, status, progress, result and
\* error; the response names no user.
RespJob(job) == [Resp(200, "") EXCEPT !.job = [job EXCEPT !.userId = NoUser]]

\* GET /exports/jobs/:jobId: 404 when the map has no such job, 403 when the
\* job is another user's, else the job.
GetExportJobStatus(r) ==
  /\ req[r].pc = "getExportJobStatus"
  /\ LET found == {job \in exportJobs : job.id = req[r].jobId}
         resp == IF found = {} THEN Resp(404, MsgJobNotFound)
                 ELSE LET job == CHOOSE j \in found : TRUE
                      IN  IF job.userId # req[r].doc.id THEN Resp(403, MsgAccessDenied)
                          ELSE RespJob(job)
     IN  req' = [req EXCEPT ![r] = Done(req[r], resp)]
  /\ UNCHANGED <<users, blacklist, pending, now, ticks, hist, uploads, exportJobs>>

\* The routes behind authenticateToken: the device routes, the log routes
\* and the export routes (router.use), logout, logout-all and the profile.
ProtectedOps ==
  {"devices", "logs", "exports", "createExportJob", "downloadExport",
   "logout", "logoutAll", "getProfile", "updateProfile"}

\* The files a client can name: the ones that exist and one that does not.
Files == uploads \cup {FileName(d, 0) : d \in DeviceIds}

\* A client logs in and asks the protected routes, with the access token it
\* was given or with none.  A device, log or profile-update request is sent
\* without a token only.
BeginProtected(r) ==
  \/ LoginFind(r, "a@x.com", "Secret123")
  \/ \E op \in {"logout", "logoutAll", "getProfile"}, bearer \in hist.access \cup {NoToken} :
       AuthBlacklistCheck(r, op, bearer, NoToken, NoToken)
  \/ \E op \in {"devices", "logs", "updateProfile"} :
       AuthBlacklistCheck(r, op, NoToken, NoToken, NoToken)
  \/ \E bearer \in hist.access \cup {NoToken}, d \in DeviceIds :
       AuthEnter(r, [Arrive("createExportJob") EXCEPT !.bearer = bearer, !.device = d])
  \/ \E bearer \in hist.access \cup {NoToken}, file \in Files :
       AuthEnter(r, [Arrive("downloadExport") EXCEPT !.bearer = bearer, !.file = file])
  \/ \E bearer \in hist.access \cup {NoToken}, file \in Files : ServeStatic(r, bearer, file)

NextProtected ==
  \/ \E r \in Slots : Quiet /\ nreq < MaxProtectedRequests /\ nreq' = nreq + 1
                       /\ BeginProtected(r) /\ UNCHANGED aside
  \/ \E r \in Slots : LoginSave(r) /\ UNCHANGED <<nreq, aside>>
  \/ \E r \in Slots : AuthResolve(r) /\ UNCHANGED <<nreq, aside>>
  \/ \E r \in Slots : GetProfile(r) /\ UNCHANGED <<nreq, aside>>
  \/ \E r \in Slots : LogoutAllSave(r) /\ UNCHANGED <<nreq, aside>>
  \/ \E r \in Slots : CreateExportJob(r) /\ UNCHANGED <<nreq, env, sockets, swept, gone, socketState, limiterState, deviceState>>
  \/ \E r \in Slots : DownloadExport(r) /\ UNCHANGED <<nreq, env, sockets, swept, gone, socketState, limiterState, deviceState>>
  \/ \E job \in exportJobs : ProcessExportJob(job)
  \/ \E p \in pending : PushLands(p) /\ UNCHANGED <<nreq, aside>>

SpecProtected == Init /\ [][NextProtected]_vars

\* ------------------------------------- concurrent wrong-password logins
\* Clients send logins with a wrong password for one account, a new one
\* while another is still being handled.
NextWrong ==
  \/ \E r \in Slots : nreq < MaxWrongLogins /\ nreq' = nreq + 1
                       /\ LoginFind(r, "a@x.com", "Wrong123") /\ UNCHANGED aside
  \/ \E r \in Slots : LoginSave(r) /\ UNCHANGED <<nreq, aside>>
  \/ \E d \in TickSteps : Tick(d, MaxTicks) /\ UNCHANGED <<nreq, aside>>

SpecWrong == Init /\ [][NextWrong]_vars

\* Logins for one account with the right or a wrong password, a new one
\* while another is still being handled.
NextLogins ==
  \/ \E r \in Slots, p \in Passwords :
       /\ nreq < MaxLoginRequests /\ nreq' = nreq + 1
       /\ LoginFind(r, "a@x.com", p) /\ UNCHANGED aside
  \/ \E r \in Slots : LoginSave(r) /\ UNCHANGED <<nreq, aside>>
  \/ \E p \in pending : PushLands(p) /\ UNCHANGED <<nreq, aside>>
  \/ \E d \in {LockTime} : Tick(d, MaxSessionTicks) /\ UNCHANGED <<nreq, aside>>

SpecLogins == Init /\ [][NextLogins]_vars

\* ------------------------------------------------ exports of two users
\* Two accounts, each with a device of its own.
OwnerIds == {1, 2}
OwnerEmail(i) == IF i = 1 THEN "a@x.com" ELSE "b@x.com"

InitOwners ==
  /\ users = [i \in OwnerIds |-> NewUser(i, OwnerEmail(i), "Secret123", TRUE)]
  /\ blacklist = {}
  /\ pending = {}
  /\ req = [r \in Slots |-> Idle]
  /\ now = 0
  /\ ticks = 0
  /\ nreq = 0
  /\ env = [JWT_SECRET |-> "access-secret", JWT_REFRESH_SECRET |-> "refresh-secret"]
  /\ sockets = {}
  /\ swept = <<>>
  /\ gone = {}
  /\ uploads = {}
  /\ exportJobs = {}
  /\ limiter = [hits |-> [k \in LimiterKeys |-> 0], resetTime |-> AuthWindow]
  /\ attempts = [failed |-> [k \in LimiterKeys |-> 0], stale |-> {}]
  /\ devices = {NewDevice("d1", 1, "lamp", "active"), NewDevice("d2", 2, "fan", "active")}
  /\ logs = {}
  /\ cache = [k \in CacheKeys |-> NoEntry]
  /\ connections = {}
  /\ connectedUsers = <<>>
  /\ deviceSubscriptions = <<>>
  /\ hist = [fails |-> 0, logins |-> 0,
             unknownSignal |-> {}, wrongPasswordSignal |-> {},
             returned |-> {}, access |-> {}, invalidated |-> {},
             presented |-> {}, granted |-> {}, doubleGrant |-> FALSE,
             expect |-> {}, revoked |-> {}]

\* Either user logs in; a client creates export jobs, asks for the status of
\* a job and fetches export files, by both routes that serve them, with an
\* access token of either user or with none.
BeginOwners(r) ==
  \/ \E i \in OwnerIds : LoginFind(r, OwnerEmail(i), "Secret123")
  \/ \E bearer \in hist.access, d \in DeviceIds :
       AuthEnter(r, [Arrive("createExportJob") EXCEPT !.bearer = bearer, !.device = d])
  \/ \E bearer \in hist.access \cup {NoToken}, id \in JobIds(exportJobs) :
       AuthEnter(r, [Arrive("getExportJobStatus") EXCEPT !.bearer = bearer, !.jobId = id])
  \/ \E bearer \in hist.access \cup {NoToken}, file \in uploads :
       AuthEnter(r, [Arrive("downloadExport") EXCEPT !.bearer = bearer, !.file = file])
  \/ \E bearer \in hist.access \cup {NoToken}, file \in uploads : ServeStatic(r, bearer, file)

NextOwners ==
  \/ \E r \in Slots : Quiet /\ nreq < MaxOwnerRequests /\ nreq' = nreq + 1
                       /\ BeginOwners(r) /\ UNCHANGED aside
  \/ \E r \in Slots : LoginSave(r) /\ UNCHANGED <<nreq, aside>>
  \/ \E r \in Slots : AuthResolve(r) /\ UNCHANGED <<nreq, aside>>
  \/ \E r \in Slots : CreateExportJob(r) /\ UNCHANGED <<nreq, env, sockets, swept, gone, socketState, limiterState, deviceState>>
  \/ \E r \in Slots : GetExportJobStatus(r) /\ UNCHANGED <<nreq, aside>>
  \/ \E r \in Slots : DownloadExport(r) /\ UNCHANGED <<nreq, env, sockets, swept, gone, socketState, limiterState, deviceState>>
  \/ \E job \in exportJobs : ProcessExportJob(job)
  \/ \E p \in pending : PushLands(p) /\ UNCHANGED <<nreq, aside>>

SpecOwners == InitOwners /\ [][NextOwners]_vars

\* ------------------------------------------------- logout of two users
\* Either user logs in; a client logs out with the access token of one user
\* and, in the body, any access and refresh token that was issued; a client
\* asks for the profile with an access token that was issued.
BeginCross(r) ==
  \/ \E i \in OwnerIds : LoginFind(r, OwnerEmail(i), "Secret123")
  \/ \E bearer \in hist.access, ba \in hist.access \cup {NoToken},
        br \in hist.returned \cup {NoToken} :
       AuthBlacklistCheck(r, "logout", bearer, ba, br)
  \/ \E bearer \in hist.access : AuthBlacklistCheck(r, "getProfile", bearer, NoToken, NoToken)

NextCross ==
  \/ \E r \in Slots : Quiet /\ nreq < MaxCrossRequests /\ nreq' = nreq + 1
                       /\ BeginCross(r) /\ UNCHANGED aside
  \/ \E r \in Slots : LoginSave(r) /\ UNCHANGED <<nreq, aside>>
  \/ \E r \in Slots : AuthResolve(r) /\ UNCHANGED <<nreq, aside>>
  \/ \E r \in Slots, which \in {"blacklistAccess", "blacklistRefresh"} :
       LogoutBlacklist(r, which) /\ UNCHANGED <<nreq, aside>>
  \/ \E r \in Slots : LogoutSave(r) /\ UNCHANGED <<nreq, aside>>
  \/ \E r \in Slots : GetProfile(r) /\ UNCHANGED <<nreq, aside>>
  \/ \E p \in pending : PushLands(p) /\ UNCHANGED <<nreq, aside>>

SpecCross == InitOwners /\ [][NextCross]_vars

\* The protected routes with the event loop's guarantee: a processExportJob
\* that is waiting for its export is resumed once the export settles.
SpecExport ==
  /\ SpecProtected
  /\ \A id \in 1..(MaxProtectedRequests + 1) :
       WF_vars(\E job \in exportJobs : job.id = id /\ ProcessExportJob(job))

\* ------------------------------------------ the login rate limiter
\* The memory store of express-rate-limit: increment on every request,
\* decrement (not below zero) for a request the limiter is told to skip,
\* resetAll when the window ends.
increment(store, key) == [store EXCEPT !.hits[key] = @ + 1]

decrement(store, key) == [store EXCEPT !.hits[key] = IF @ > 0 THEN @ - 1 ELSE 0]

resetAll(store, t) == [hits |-> [k \in LimiterKeys |-> 0], resetTime |-> t + AuthWindow]

\* skipSuccessfulRequests: a response with a status below 400 is taken back.
requestWasSuccessful(resp) == resp.status < 400

\* What the limiter does when the response of a request of the key is
\* finished.
LimiterFinish(store, key, resp) ==
  IF requestWasSuccessful(resp) THEN decrement(store, key) ELSE store

\* POST /auth/login arrives: authLimiter counts it and answers 429 with its
\* message when the key has more than max hits, and else lets it through to
\* login.
AuthLimiter(r, email, password) ==
  LET key == keyGenerator(Ip, email)
      store == increment(limiter, key)
  IN  IF store.hits[key] > MaxAuthRequests
      THEN /\ Takes(r)
           /\ req' = [req EXCEPT ![r] = Done(Arrive("login"), Resp(429, MsgTooManyAttempts))]
           /\ limiter' = store
           /\ attempts' = [attempts EXCEPT !.failed[key] = @ + 1, !.stale = @ \ {r}]
           /\ UNCHANGED <<users, blacklist, pending, now, ticks, hist>>
      ELSE /\ LoginFind(r, email, password)
           /\ limiter' = IF req'[r].pc = "done"
                         THEN LimiterFinish(store, key, req'[r].resp) ELSE store
           /\ attempts' = IF req'[r].pc = "done" /\ ~requestWasSuccessful(req'[r].resp)
                          THEN [attempts EXCEPT !.failed[key] = @ + 1, !.stale = @ \ {r}]
                          ELSE [attempts EXCEPT !.stale = @ \ {r}]

\* The login handler answers, and the limiter sees the response finished.
LimitedLoginSave(r) ==
  /\ LoginSave(r)
  /\ LET key == keyGenerator(Ip, req[r].email)
     IN  /\ limiter' = LimiterFinish(limiter, key, req'[r].resp)
         /\ attempts' = IF requestWasSuccessful(req'[r].resp) \/ r \in attempts.stale
                        THEN attempts
                        ELSE [attempts EXCEPT !.failed[key] = @ + 1]

\* The clock advances; when the window has ended the store is reset.  The
\* logins being handled then are logins of the window that ended.
LimiterTick(d) ==
  /\ Tick(d, MaxLimiterTicks)
  /\ IF now' >= limiter.resetTime
     THEN /\ limiter' = resetAll(limiter, now')
          /\ attempts' = [failed |-> [k \in LimiterKeys |-> 0],
                          stale |-> {s \in Slots : req[s].pc = "loginSave"}]
     ELSE UNCHANGED limiterState

\* Login requests of one address, handled concurrently.  The saves that
\* generateRefreshToken leaves in flight are not followed here.
NextLimiter ==
  \/ \E r \in Slots, e \in Emails, p \in Passwords :
       /\ nreq < MaxLimiterRequests /\ nreq' = nreq + 1
       /\ AuthLimiter(r, e, p)
       /\ UNCHANGED <<env, sockets, swept, gone, socketState, exportState, deviceState>>
  \/ \E r \in Slots : LimitedLoginSave(r) /\ UNCHANGED <<nreq, env, sockets, swept, gone, socketState, exportState, deviceState>>
  \/ \E d \in {AuthWindow} : LimiterTick(d) /\ UNCHANGED <<nreq, env, sockets, swept, gone, socketState, exportState, deviceState>>

SpecLimiter == Init /\ [][NextLimiter]_vars

\* ------------------------------------- the device routes and the cache
\* Device.find({ owner_id }).
FindDevices(devs, userId) == {d \in devs : d.owner_id = userId}

\* redisClient.invalidateDeviceCache: the keys devices:list:* and
\* analytics:device:<id>:* are deleted (the keys device:<id>:* hold nothing
\* here).
invalidateDeviceCacheKeys(c, deviceId) ==
  [k \in DOMAIN c |->
     IF \/ k[1] = "devices" /\ k[2] = "list"
        \/ k[1] = "analytics" /\ k[3] = deviceId
     THEN NoEntry ELSE c[k]]

\* The body of GET /devices.
RespDevices(list, cached) == [Resp(200, "") EXCEPT !.devices = list, !.cached = cached]

\* cacheMiddleware on GET /devices: the cached body when Redis holds the
\* key, else on to the handler with res.json wrapped.
CacheMiddleware(r) ==
  /\ req[r].pc = "cacheMiddleware"
  /\ LET entry == cache[deviceList(req[r].doc.id)]
     IN  req' = [req EXCEPT ![r] =
                   IF entry.held THEN Done(req[r], RespDevices(entry.devices, TRUE))
                   ELSE [req[r] EXCEPT !.pc = "getDevices"]]
  /\ UNCHANGED <<users, blacklist, pending, now, ticks, hist, devices, logs, cache>>

\* getDevices: the awaited Device.find.
GetDevicesFind(r) ==
  /\ req[r].pc = "getDevices"
  /\ req' = [req EXCEPT ![r] = [req[r] EXCEPT !.pc = "getDevicesCount",
                                              !.found = FindDevices(devices, req[r].doc.id)]]
  /\ UNCHANGED <<users, blacklist, pending, now, ticks, hist, devices, logs, cache>>

\* getDevices after countDocuments: res.json with the list found, which the
\* wrapped res.json puts into the cache.
GetDevicesRespond(r) ==
  /\ req[r].pc = "getDevicesCount"
  /\ cache' = [cache EXCEPT ![deviceList(req[r].doc.id)] =
                 [held |-> TRUE, devices |-> req[r].found, data |-> NoData]]
  /\ req' = [req EXCEPT ![r] = Done(req[r], RespDevices(req[r].found, FALSE))]
  /\ UNCHANGED <<users, blacklist, pending, now, ticks, hist, devices, logs>>

\* The middleware invalidateDeviceCache of PATCH, DELETE and heartbeat, in
\* front of the handler.
InvalidateDeviceCache(r) ==
  /\ req[r].pc = "invalidateDeviceCache"
  /\ cache' = invalidateDeviceCacheKeys(cache, req[r].device)
  /\ req' = [req EXCEPT ![r] = [req[r] EXCEPT !.pc = req[r].op]]
  /\ UNCHANGED <<users, blacklist, pending, now, ticks, hist, devices, logs>>

\* The id of a new device.
NewDeviceId(devs) ==
  CHOOSE d \in DeviceIds : d \notin {x.id : x \in devs}

\* POST /devices: the device is saved, 201.
CreateDevice(r) ==
  /\ req[r].pc = "createDevice"
  /\ \E d \in DeviceIds : d \notin {x.id : x \in devices}
  /\ devices' = devices \cup
       {NewDevice(NewDeviceId(devices), req[r].doc.id, req[r].name, "active")}
  /\ req' = [req EXCEPT ![r] = Done(req[r], Resp(201, ""))]
  /\ UNCHANGED <<users, blacklist, pending, now, ticks, hist, logs, cache>>

\* The device of the caller with this id, as a set.
OwnDevice(devs, id, userId) == {d \in devs : d.id = id /\ d.owner_id = userId}

\* PATCH /devices/:id, DELETE /devices/:id and POST /devices/:id/heartbeat
\* after the invalidation: findOne, 404 for a device the caller does not
\* own, else the write and 200.
MutateDevice(r) ==
  /\ req[r].pc \in {"updateDevice", "deleteDevice", "updateHeartbeat"}
  /\ LET own == OwnDevice(devices, req[r].device, req[r].doc.id)
         new == IF req[r].pc = "deleteDevice" THEN {}
                ELSE IF req[r].pc = "updateDevice"
                THEN {[d EXCEPT !.name = req[r].name] : d \in own}
                ELSE {[d EXCEPT !.status = req[r].status, !.last_active_at = now] : d \in own}
         message == IF req[r].pc = "deleteDevice" THEN MsgDeviceDeleted
                    ELSE IF req[r].pc = "updateDevice" THEN "" ELSE MsgHeartbeat
     IN  IF own = {}
         THEN /\ req' = [req EXCEPT ![r] = Done(req[r], Resp(404, MsgDeviceNotFound))]
              /\ devices' = devices
         ELSE /\ req' = [req EXCEPT ![r] = Done(req[r], Resp(200, message))]
              /\ devices' = (devices \ own) \cup new
  /\ UNCHANGED <<users, blacklist, pending, now, ticks, hist, logs, cache>>

\* The device requests of a client that has logged in, with the access
\* token it was given.
BeginDevices(r) ==
  \/ LoginFind(r, "a@x.com", "Secret123")
  \/ \E bearer \in hist.access : AuthBlacklistCheck(r, "getDevices", bearer, NoToken, NoToken)
  \/ \E bearer \in hist.access :
       AuthEnter(r, [Arrive("createDevice") EXCEPT !.bearer = bearer, !.name = "fan"])
  \/ \E bearer \in hist.access, d \in DeviceIds :
       \/ AuthEnter(r, [Arrive("updateDevice") EXCEPT
                          !.bearer = bearer, !.device = d, !.name = "desk lamp"])
       \/ AuthEnter(r, [Arrive("deleteDevice") EXCEPT !.bearer = bearer, !.device = d])
       \/ AuthEnter(r, [Arrive("updateHeartbeat") EXCEPT
                          !.bearer = bearer, !.device = d, !.status = "inactive"])

\* Device requests handled concurrently.
NextDevices ==
  \/ \E r \in Slots : nreq < MaxDeviceRequests /\ nreq' = nreq + 1 /\ BeginDevices(r)
                       /\ UNCHANGED aside
  \/ \E r \in Slots : LoginSave(r) /\ UNCHANGED <<nreq, aside>>
  \/ \E r \in Slots : AuthResolve(r) /\ UNCHANGED <<nreq, aside>>
  \/ \E r \in Slots : CacheMiddleware(r)
                       /\ UNCHANGED <<nreq, env, sockets, swept, gone, socketState, exportState, limiterState>>
  \/ \E r \in Slots : GetDevicesFind(r)
                       /\ UNCHANGED <<nreq, env, sockets, swept, gone, socketState, exportState, limiterState>>
  \/ \E r \in Slots : GetDevicesRespond(r)
                       /\ UNCHANGED <<nreq, env, sockets, swept, gone, socketState, exportState, limiterState>>
  \/ \E r \in Slots : InvalidateDeviceCache(r)
                       /\ UNCHANGED <<nreq, env, sockets, swept, gone, socketState, exportState, limiterState>>
  \/ \E r \in Slots : CreateDevice(r)
                       /\ UNCHANGED <<nreq, env, sockets, swept, gone, socketState, exportState, limiterState>>
  \/ \E r \in Slots : MutateDevice(r)
                       /\ UNCHANGED <<nreq, env, sockets, swept, gone, socketState, exportState, limiterState>>

SpecDevices == Init /\ [][NextDevices]_vars

\* ------------------------------------------------------ logs and usage
\* The event and value of the log entries clients send.
UnitsConsumed == "units_consumed"

\* The logs of a device as getLogs returns them, and its usage as
\* Log.getAggregatedUsage adds it up.
LogsData(ls, id) ==
  [NoData EXCEPT !.kind = "logs", !.device_id = id,
                 !.logs = {l \in ls : l.device_id = id}]

RECURSIVE SumValues(_)
SumValues(ls) ==
  IF ls = {} THEN 0
  ELSE LET l == CHOOSE x \in ls : TRUE IN l.value + SumValues(ls \ {l})

UsageData(ls, id) ==
  LET units == {l \in ls : l.device_id = id /\ l.event = UnitsConsumed}
  IN  [NoData EXCEPT !.kind = "usage", !.device_id = id,
                     !.total_units = SumValues(units), !.log_count = Cardinality(units)]

RespData(data, cached) == [Resp(200, "") EXCEPT !.data = data, !.cached = cached]

\* POST /devices/:id/logs: 404 for a device the caller does not own, else
\* the log entry is saved, 201.
CreateLog(r) ==
  /\ req[r].pc = "createLog"
  /\ IF OwnDevice(devices, req[r].device, req[r].doc.id) = {}
     THEN /\ req' = [req EXCEPT ![r] = Done(req[r], Resp(404, MsgDeviceNotFound))]
          /\ logs' = logs
     ELSE /\ req' = [req EXCEPT ![r] = Done(req[r], Resp(201, ""))]
          /\ logs' = logs \cup {[id |-> Cardinality(logs) + 1, device_id |-> req[r].device,
                                 event |-> UnitsConsumed, value |-> 5]}
  /\ UNCHANGED <<users, blacklist, pending, now, ticks, hist, devices, cache>>

\* The key cacheMiddleware is given on the log routes.
LogsKey(rq) == IF rq.op = "getLogs" THEN deviceLogs(rq.device) ELSE analytics(rq.device)

\* cacheMiddleware on GET /devices/:id/logs and GET /devices/:id/usage, in
\* front of the handler: the cached body when Redis holds the key, else on
\* to the handler with res.json wrapped.
CacheLogs(r) ==
  /\ req[r].pc = "cacheLogs"
  /\ LET entry == cache[LogsKey(req[r])]
     IN  req' = [req EXCEPT ![r] =
                   IF entry.held THEN Done(req[r], RespData(entry.data, TRUE))
                   ELSE [req[r] EXCEPT !.pc = req[r].op]]
  /\ UNCHANGED <<users, blacklist, pending, now, ticks, hist, devices, logs, cache>>

\* getLogs and getUsage: 404 for a device the caller does not own (a body
\* with success false, which the wrapped res.json does not cache), else the
\* logs or the usage of the device, which the wrapped res.json caches.
GetLogs(r) ==
  /\ req[r].pc \in {"getLogs", "getUsage"}
  /\ LET data == IF req[r].pc = "getLogs" THEN LogsData(logs, req[r].device)
                 ELSE UsageData(logs, req[r].device)
     IN  IF OwnDevice(devices, req[r].device, req[r].doc.id) = {}
         THEN /\ req' = [req EXCEPT ![r] = Done(req[r], Resp(404, MsgDeviceNotFound))]
              /\ cache' = cache
         ELSE /\ req' = [req EXCEPT ![r] = Done(req[r], RespData(data, FALSE))]
              /\ cache' = [cache EXCEPT ![LogsKey(req[r])] =
                             [held |-> TRUE, devices |-> {}, data |-> data]]
  /\ UNCHANGED <<users, blacklist, pending, now, ticks, hist, devices, logs>>

\* Either user logs in; a client sends a log entry for a device, and asks
\* for the logs and the usage of a device, with an access token of either
\* user.
BeginLogs(r) ==
  \/ \E i \in OwnerIds : LoginFind(r, OwnerEmail(i), "Secret123")
  \/ \E bearer \in hist.access, d \in DeviceIds, op \in {"createLog", "getLogs", "getUsage"} :
       AuthEnter(r, [Arrive(op) EXCEPT !.bearer = bearer, !.device = d])

NextLogs ==
  \/ \E r \in Slots : Quiet /\ nreq < MaxLogRequests /\ nreq' = nreq + 1
                       /\ BeginLogs(r) /\ UNCHANGED aside
  \/ \E r \in Slots : LoginSave(r) /\ UNCHANGED <<nreq, aside>>
  \/ \E r \in Slots : AuthResolve(r) /\ UNCHANGED <<nreq, aside>>
  \/ \E r \in Slots : CreateLog(r)
                       /\ UNCHANGED <<nreq, env, sockets, swept, gone, socketState, exportState, limiterState>>
  \/ \E r \in Slots : CacheLogs(r)
                       /\ UNCHANGED <<nreq, env, sockets, swept, gone, socketState, exportState, limiterState>>
  \/ \E r \in Slots : GetLogs(r)
                       /\ UNCHANGED <<nreq, env, sockets, swept, gone, socketState, exportState, limiterState>>
  \/ \E p \in pending : PushLands(p) /\ UNCHANGED <<nreq, aside>>

SpecLogs == InitOwners /\ [][NextLogs]_vars

DoneLogin(r) == req[r].pc = "done" /\ req[r].op = "login"

DoneRefresh(r) == req[r].pc = "done" /\ req[r].op = "refresh"

Success(resp) == resp.status = 200 /\ resp.refreshToken # NoToken

\* The refresh tokens the stored record of an account holds.
Membership(id) == Range(users[id].refreshTokens)

C2_RotationSingleUse ==
  \A r \in Slots :
    DoneRefresh(r) =>
      /\ (req[r].nth = 0 /\ req[r].passedAuth /\ req[r].resp.status # 401)
            => Success(req[r].resp)
      /\ (req[r].nth > 0 /\ req[r].bodyRefresh \in hist.granted)
            => req[r].resp = Resp(401, MsgRefreshRevoked)

\* C3: once Logout-all has answered 200, no refresh token issued to the
\* account before is accepted by the validator of /auth/refresh.
C3_LogoutAllInvalidates ==
  \A t \in hist.invalidated : RefreshAuthOutcome(users, t, now) # "next"

C6_IssueThenPersist ==
  \A r \in Slots :
    (DoneLogin(r) /\ Success(req[r].resp))
       => req[r].resp.refreshToken \in Membership(req[r].resp.refreshToken.id)

\* C7: a failed Login that finds the lock expired leaves the account open.
C7_ExpiredLockResetsCounter ==
  \A r \in Slots :
    (DoneLogin(r) /\ req[r].sawExpired /\ req[r].compared /\ ~req[r].correct)
       => \A i \in Ids : ~LockedAt(i, now)

C10_SameSignal ==
  \A a \in hist.unknownSignal, b \in hist.wrongPasswordSignal : a = b

C10_Witness ==
  /\ hist.unknownSignal # {}
  /\ hist.wrongPasswordSignal # {}

\* C11: a Login on an account that is not active is answered like a Login
\* with a wrong password (same status, same message), gets no token and
\* leaves the account's record as it was created.
C11_InactiveLikeWrongPassword ==
  \A r \in Slots :
    (DoneLogin(r) /\ req[r].known
       /\ \A i \in Ids : users[i] # NoDoc => ~users[i].isActive)
      => /\ Signal(req[r].resp) = Signal(LoginWrongPassword)
         /\ req[r].resp.refreshToken = NoToken /\ req[r].resp.accessToken = NoToken
         /\ \A i \in Ids : users[i] # NoDoc =>
              users[i] = NewUser(i, users[i].email, "Secret123", FALSE)

\* The seven conditions of a trusted access token, as the state has them.
Listed(tok) == \E e \in blacklist : e.token = tok

Trusted(tok) ==
  /\ tok.sig = env.JWT_SECRET
  /\ now < tok.exp
  /\ tok.type = "access"
  /\ \E i \in Ids : /\ i = tok.id /\ users[i] # NoDoc
                    /\ users[i].isActive
                    /\ ~(users[i].lockUntil # Null /\ users[i].lockUntil > now)

\* C12: authenticateToken calls next() exactly for a bearer token that is
\* not blacklisted, is signed with the access secret, is not expired, has
\* class access and names an existing, active, unlocked account; every
\* other request is answered 401 and does not reach the handler.
C12_AccessValidatorIff ==
  /\ [](\A tok \in ProbeTokens \cup {NoToken} :
          (tok # NoToken /\ ~isBlacklisted(blacklist, tok)
             /\ AuthOutcome(users, tok, now) = "next")
            <=> (~Listed(tok) /\ Trusted(tok)))
  /\ [](\A r \in Slots :
          (req[r].op = "getProfile"
             /\ (req[r].pc = "getProfile" \/ req[r].resp.status = 200))
            => req[r].passedAuth)
  /\ [][\A r \in Slots :
          /\ (Free(r) /\ req'[r].pc = "authResolve")
               => (req'[r].bearer # NoToken /\ ~Listed(req'[r].bearer))
          /\ (req[r].pc = "authResolve" /\ req'[r] # req[r])
               => /\ req'[r].passedAuth <=> Trusted(req[r].bearer)
                  /\ ~req'[r].passedAuth => req'[r].resp.status = 401]_vars

C12_Witness ==
  \E r \in Slots :
    /\ req[r].pc = "done" /\ req[r].op = "getProfile" /\ ~req[r].passedAuth
    /\ req[r].resp = Resp(401, MsgLocked)
    /\ \E i \in Ids : users[i].isActive /\ LockedAt(i, now)

\* C14: a token whose class is not the one the endpoint expects is never
\* let through, whether the two secrets differ or are the same: a bearer
\* that is not of class access is answered 401 'Invalid token type' or
\* 'Invalid token', a token of another class presented to Refresh is
\* answered 401 'Invalid refresh token' (or, once expired, as expired).
C14_WrongClassRejected ==
  [][\A r \in Slots :
       /\ (req[r].pc = "authResolve" /\ req'[r] # req[r]
             /\ req[r].bearer.type # "access")
            => /\ ~req'[r].passedAuth
               /\ req'[r].resp \in {Resp(401, MsgTokenType), Resp(401, MsgTokenInvalid)}
       /\ (req[r].pc = "refreshAuth" /\ req'[r] # req[r]
             /\ req[r].bodyRefresh.type # "refresh")
            => /\ ~req'[r].passedAuth
               /\ req'[r].resp \in {Resp(401, MsgRefreshInvalid),
                                    Resp(401, MsgRefreshExpired)}]_vars

C14_Witness ==
  /\ env.JWT_SECRET = env.JWT_REFRESH_SECRET
  /\ \E r \in Slots :
       \/ /\ req[r].pc = "done" /\ req[r].op = "getProfile"
          /\ req[r].resp = Resp(401, MsgTokenType)
       \/ /\ DoneRefresh(r) /\ req[r].bodyRefresh.type = "access"
          /\ req[r].bodyRefresh.sig = env.JWT_REFRESH_SECRET
          /\ req[r].resp = Resp(401, MsgRefreshInvalid)

\* C15: authenticateRefreshToken lets a refresh token through, and the
\* Refresh handler rotates it, only if the token verifies and is in the
\* stored membership of an account, whatever the blacklist holds.
C15_RefreshNeedsMembership ==
  [][\A r \in Slots :
       /\ (req[r].pc = "refreshAuth" /\ req'[r].passedAuth)
            => /\ JwtVerify(req[r].bodyRefresh, "JWT_REFRESH_SECRET", now) = "ok"
               /\ \E i \in Ids : users[i] # NoDoc /\ req[r].bodyRefresh \in Membership(i)
       /\ (req[r].pc = "refreshRotate" /\ req'[r].pc = "done"
             /\ req'[r].resp.status # 401)
            => /\ req[r].doc # NoDoc
               /\ req[r].bodyRefresh \in Range(req[r].doc.refreshTokens)]_vars

C15_Witness ==
  \E r \in Slots :
    /\ DoneRefresh(r) /\ ~req[r].passedAuth
    /\ req[r].resp = Resp(401, MsgRefreshInvalid)
    /\ req[r].bodyRefresh.type = "refresh"
    /\ JwtVerify(req[r].bodyRefresh, "JWT_REFRESH_SECRET", now) = "ok"
    /\ ~Listed(req[r].bodyRefresh)
    /\ \A i \in Ids : req[r].bodyRefresh \notin Membership(i)
    /\ \E i \in Ids : users[i].isActive /\ ~LockedAt(i, now)

\* C13: a blacklisted access token opens nothing: a request that carries
\* it as bearer is stopped by authenticateToken, and the WebSocket
\* handshake accepts no socket with it.
C13_RevokedRejectedEverywhere ==
  [][/\ \A r \in Slots :
          (Free(r) /\ req'[r].pc = "authResolve") => ~Listed(req'[r].bearer)
     /\ \A s \in sockets' \ sockets : ~Listed(s.token)]_vars

\* The HTTP validator of a token's class, blacklist lookup included.
Accepts(tok) ==
  /\ ~isBlacklisted(blacklist, tok)
  /\ IF tok.type = "access" THEN AuthOutcome(users, tok, now) = "next"
     ELSE RefreshAuthOutcome(users, tok, now) = "next"

\* C18: a token that was put on the blacklist is rejected by its validator
\* ever after, whenever cleanExpired and the TTL index delete entries: an
\* entry is gone only once the clock has reached the token's exp.
C18_SweepNeverReadmits ==
  \A tok \in hist.revoked :
    /\ ~Accepts(tok)
    /\ ~Listed(tok) => now >= tok.exp

C18_Witness ==
  /\ swept # <<>> /\ \E k \in 1..Len(swept) : swept[k] > 0
  /\ \E tok \in hist.revoked :
       /\ ~Listed(tok) /\ tok.type = "access"
       /\ AuthOutcome(users, tok, now) = MsgTokenExpired
  /\ \E i \in Ids : users[i].isActive /\ ~LockedAt(i, now)

\* C19: a run of cleanExpired deletes the entries with expiresAt before the
\* clock and no other, returns how many it deleted, deletes no entry of a
\* token that has not expired, and run again at once deletes nothing and
\* returns 0; an entry inserted while sweeps run stays until it expires.
C19_SweepExact ==
  /\ [][Len(swept') > Len(swept)
          => /\ blacklist' = {e \in blacklist : e.expiresAt >= now}
             /\ swept'[Len(swept')] = Cardinality(blacklist \ blacklist')
             /\ \A e \in blacklist \ blacklist' : now >= e.token.exp
             /\ (\A e \in blacklist : e.expiresAt >= now) => swept'[Len(swept')] = 0]_vars
  /\ [](LET once == cleanExpired(blacklist, now)
            twice == cleanExpired(once.remaining, now)
        IN  twice.remaining = once.remaining /\ twice.deletedCount = 0)
  /\ [](\A tok \in hist.revoked : now < tok.exp => Listed(tok))

C19_Witness ==
  /\ Len(swept) = 2 /\ swept[1] > 0 /\ swept[2] = 0
  /\ blacklist # {}
  /\ \E tok \in hist.revoked : ~Listed(tok)

DoneLogout(r) ==
  req[r].pc = "done" /\ req[r].op = "logout" /\ req[r].resp = Resp(200, MsgLoggedOut)

\* C16: when Logout has answered 200, each token its body presented is on
\* the blacklist with reason logout and rejected by its validator, and the
\* presented refresh token is not in the account's stored membership.
C16_LogoutRevokes ==
  /\ [][\A r \in Slots :
          (req[r].pc = "logout" /\ req'[r].pc = "done" /\ req'[r].resp.status = 200)
            => \A tok \in {req[r].bodyAccess, req[r].bodyRefresh} \ {NoToken} :
                 /\ \E e \in blacklist' : e.token = tok /\ e.reason = "logout"
                 /\ ~Accepts(tok)']_vars
  /\ [](\A r \in Slots :
          (DoneLogout(r) /\ req[r].bodyRefresh # NoToken)
            => /\ Listed(req[r].bodyRefresh)
               /\ ~Accepts(req[r].bodyRefresh)
               /\ \A i \in Ids : req[r].bodyRefresh \notin Membership(i))

\* What a step changed in the stored memberships: at most, one token is
\* no longer in one of them.
OnlyRemoved(tok) ==
  \A i \in Ids :
    \/ users'[i] = users[i]
    \/ /\ tok # NoToken
       /\ users'[i] = [users[i] EXCEPT !.refreshTokens = SeqFilterOut(@, tok),
                                       !.v = @ + 1]

\* C17: a Logout whose body presents no token answers 200 and changes
\* neither the blacklist nor any record; every step of a Logout adds to the
\* blacklist only tokens its body presented and changes the memberships
\* only by removing the refresh token its body presented.
C17_LogoutTouchesOnlyPresented ==
  [][\A r \in Slots :
       (req[r].op = "logout" /\ req[r].pc \in {"authResolve", "logout"}
          /\ req'[r] # req[r])
         => /\ blacklist \subseteq blacklist'
            /\ \A e \in blacklist' \ blacklist :
                 e.token \in {req[r].bodyAccess, req[r].bodyRefresh} \ {NoToken}
            /\ OnlyRemoved(req[r].bodyRefresh)
            /\ pending' = pending
            /\ (req'[r].passedAuth /\ req[r].bodyAccess = NoToken
                  /\ req[r].bodyRefresh = NoToken)
                 => /\ req'[r].resp = Resp(200, MsgLoggedOut)
                    /\ UNCHANGED <<users, blacklist>>]_vars

C17_Witness ==
  /\ \E r \in Slots : DoneLogout(r) /\ req[r].bodyRefresh = NoToken /\ req[r].passedAuth
  /\ blacklist = {}
  /\ \E i \in Ids : Membership(i) # {}

\* C20: no two accounts have the same email, whatever Signup and
\* profile-update requests were handled and however they interleaved; and a
\* Signup whose email an account has, when it arrives or when its record is
\* created, is answered 400 "User with this email already exists" and
\* changes no record.
C20_EmailUnique ==
  /\ [](\A i, j \in DOMAIN users :
          (i # j /\ users[i] # NoDoc /\ users[j] # NoDoc)
            => users[i].email # users[j].email)
  /\ [][\A r \in Slots :
          /\ (Free(r) /\ req'[r].op = "signup" /\ req'[r].pc = "signupSave")
               => findOne(users, Lowercase(req'[r].email)) = NoDoc
          /\ (Free(r) /\ req'[r] # req[r] /\ req'[r].op = "signup" /\ req'[r].pc = "done")
               => req'[r].resp = Resp(400, MsgEmailExists) /\ users' = users
          /\ (req[r].pc = "signupSave" /\ req'[r].pc = "done"
                /\ findOne(users, Lowercase(req[r].email)) # NoDoc)
               => req'[r].resp = Resp(400, MsgEmailExists) /\ users' = users]_vars

C22_SecretsNeverReturned ==
  \A r \in Slots :
    /\ DOMAIN req[r].resp.user \cap {"password", "refreshTokens"} = {}
    /\ req[r].resp.refreshToken # NoToken
         => /\ req[r].op \in {"login", "refresh"}
            /\ req[r].resp.refreshToken \in hist.returned
            /\ req[r].resp.refreshToken.iat = now

C22_Witness ==
  \E r \in Slots :
    /\ req[r].pc = "done" /\ req[r].op = "updateProfile"
    /\ req[r].resp.status = 200 /\ req[r].resp.message = MsgProfileUpdated
    /\ DOMAIN req[r].resp.user # {}
    /\ req[r].resp.user.name = "Jane Doe"
    /\ Membership(req[r].resp.user.id) # {}

\* C24: the password of every record is the digest of the plaintext the
\* account was registered with, hashed once, never the plaintext itself;
\* comparePassword with that plaintext is true; no save of any handler
\* changes the password of a record that exists.
C24_PasswordHashedOnce ==
  /\ [](\A i \in DOMAIN users :
          users[i] # NoDoc
            => /\ users[i].password.rounds = 1
               /\ users[i].password # Plain(users[i].password.of)
               /\ comparePassword(users[i], users[i].password.of))
  /\ [][\A i \in DOMAIN users :
          /\ users[i] # NoDoc => users'[i].password = users[i].password
          /\ (users[i] = NoDoc /\ users'[i] # NoDoc)
               => \E r \in Slots :
                    /\ req[r].pc = "signupSave"
                    /\ users'[i].password = Hash(Plain(req[r].password))]_vars

C24_Witness ==
  /\ users[1] # NoDoc
  /\ users[1].name = "Jane Doe" /\ users[1].lastLogin # Null
  /\ Membership(1) # {}
  /\ comparePassword(users[1], "Secret123")
  /\ ~comparePassword(users[1], "Wrong123")

\* C23: authenticateToken answers 401 'Token has expired' with the code
\* TOKEN_EXPIRED exactly to a bearer token that is not blacklisted, is signed
\* with the access secret and has reached its exp; every other rejection has
\* another message and no code.
C23_ExpiredDistinct ==
  [][\A r \in Slots :
       /\ (Free(r) /\ req'[r] # req[r] /\ req'[r].op = "getProfile" /\ req'[r].pc = "done")
            => /\ req'[r].resp.status = 401
               /\ req'[r].resp.code = ""
               /\ req'[r].resp.message \in {MsgTokenRequired, MsgTokenRevoked}
       /\ (req[r].pc = "authResolve" /\ req'[r] # req[r])
            => LET tok == req[r].bearer
                   expired == /\ tok.sig = env.JWT_SECRET /\ now >= tok.exp
                              /\ ~Listed(tok)
               IN  /\ (expired /\ tok.type = "access")
                        => req'[r].resp = AuthReject(MsgTokenExpired)
                   /\ (req'[r].resp.message = MsgTokenExpired
                         \/ req'[r].resp.code = "TOKEN_EXPIRED")
                        <=> expired
                   /\ req'[r].resp.code = "TOKEN_EXPIRED"
                        => Signal(req'[r].resp) \notin
                             {<<401, m>> : m \in {MsgTokenRequired, MsgTokenRevoked,
                                                  MsgTokenInvalid, MsgTokenType,
                                                  MsgUserNotFound, MsgDeactivated,
                                                  MsgLocked}}]_vars

C23_Witness ==
  \E r \in Slots :
    /\ req[r].pc = "done" /\ req[r].op = "getProfile"
    /\ req[r].resp.code = "TOKEN_EXPIRED" /\ req[r].resp.status = 401
    /\ now >= AccessExpiresIn
    /\ \E i \in Ids : ~users[i].isActive

\* C25: a request to a route behind authenticateToken (devices, logs,
\* exports, logout, logout-all, profile) that carries no bearer token is
\* answered 401 "Access token is required" and changes nothing.
C25_NoBearerRejected ==
  [][\A r \in Slots :
       (Free(r) /\ req'[r] # req[r] /\ req'[r].op \in ProtectedOps /\ req'[r].anonymous)
         => /\ req'[r].pc = "done"
            /\ req'[r].resp = Resp(401, MsgTokenRequired)
            /\ UNCHANGED <<users, blacklist, pending, uploads, exportJobs>>]_vars

\* C26: a login request of a key that has had five failed logins answered in
\* the current window is answered 429 "Too many authentication attempts" by
\* the limiter and changes no account; a login request of a key with fewer
\* than five, made while no login of that key is being handled, is let
\* through to the handler.
C26_LoginLimited ==
  [][\A r \in Slots, k \in LimiterKeys :
       (/\ Free(r) /\ req'[r] # req[r] /\ req'[r].op = "login"
        /\ limiter'.hits[k] > limiter.hits[k])
         => /\ attempts.failed[k] >= MaxAuthRequests
                 => /\ req'[r].pc = "done"
                    /\ req'[r].resp = Resp(429, MsgTooManyAttempts)
                    /\ users' = users
            /\ (/\ attempts.failed[k] < MaxAuthRequests
                /\ \A s \in Slots : req[s].pc = "loginSave"
                                      => keyGenerator(Ip, req[s].email) # k)
                 => req'[r].resp.status # 429]_vars

\* C27: a GET /devices that is answered from the cache returns the devices
\* the caller has in the store: no cached list outlives a create, update,
\* delete or heartbeat that has completed.
C27_CacheNeverStale ==
  [][\A r \in Slots :
       (req[r].pc = "cacheMiddleware" /\ req'[r].pc = "done" /\ req'[r].resp.cached)
         => req'[r].resp.devices = FindDevices(devices, req[r].doc.id)]_vars

\* What Refresh records of the refresh token it rotates out.
RefreshEntry(tok) ==
  [token |-> tok, userId |-> tok.id, type |-> "refresh", expiresAt |-> tok.exp,
   reason |-> "refresh"]

C30_FailedRefreshChangesNothing ==
  [][/\ \A r \in Slots :
          (req'[r] # req[r] /\ req'[r].op = "refresh" /\ req'[r].pc = "done"
             /\ req'[r].resp.status >= 400)
            => /\ users' = users /\ blacklist' = blacklist
               /\ req'[r].resp.accessToken = NoToken
               /\ req'[r].resp.refreshToken = NoToken
     /\ \A p \in pending \ pending' :
          p.kind = "set"
            => \A i \in DOMAIN users :
                 Range(users'[i].refreshTokens) = Range(users[i].refreshTokens)]_vars

\* C29: a Logout-all that answers 200 adds nothing to the blacklist, leaves
\* every field of every account but the membership (and the version of the
\* record) as it was and leaves the caller's membership empty; and no
\* refresh token issued to the account before is in its membership
\* afterwards.
C29_LogoutAllOnlyMembership ==
  /\ [][\A r \in Slots :
          (req[r].pc = "logoutAll" /\ req'[r].pc = "done" /\ req'[r].resp.status = 200)
            => /\ blacklist' = blacklist
               /\ \A i \in DOMAIN users :
                    [users'[i] EXCEPT !.refreshTokens = <<>>, !.v = 0]
                      = [users[i] EXCEPT !.refreshTokens = <<>>, !.v = 0]
               /\ users'[req[r].doc.id].refreshTokens = <<>>]_vars
  /\ [](\A t \in hist.invalidated : t \notin Range(users[t.id].refreshTokens))

\* C31: an export job's status moves pending -> processing -> completed or
\* pending -> processing -> failed only: a job enters the map as the pending
\* job that processExportJob has started, completed and failed jobs never
\* change again, a completed job has progress 100 and a result, a failed job
\* has an error, and every created job is eventually completed or failed.
C31_JobLifecycle ==
  /\ [](\A job \in exportJobs :
          /\ job.status \in {"pending", "processing", "completed", "failed"}
          /\ job.status = "completed" => job.progress = 100 /\ job.fileName # NoFile
          /\ job.status = "failed" => job.error # NoError)
  /\ [][/\ JobIds(exportJobs) \subseteq JobIds(exportJobs')
        /\ \A id \in JobIds(exportJobs') \ JobIds(exportJobs) :
             \E u \in AccountIds, d \in DeviceIds :
               JobOf(exportJobs', id) = processExportJobStart(NewJob(id, u, d))
        /\ \A id \in JobIds(exportJobs) :
             LET old == JobOf(exportJobs, id)
                 new == JobOf(exportJobs', id)
             IN  \/ new = old
                 \/ /\ old.status = "processing"
                    /\ Settled(new)]_vars
  /\ \A id \in 1..(MaxProtectedRequests + 1) :
       (id \in JobIds(exportJobs)) ~> (id \in JobIds(exportJobs) /\ Settled(JobOf(exportJobs, id)))

C31_Witness ==
  \E j, k \in exportJobs :
    /\ j.status = "completed" /\ j.progress = 100 /\ j.fileName \in uploads
    /\ k.status = "failed" /\ k.error = MsgExportDenied

\* C32: export results are visible only to the user who created the job: a
\* response shows a job only to the authenticated user who owns it (another
\* user is answered 403), and a response carries an export file only for an
\* authenticated user who owns a job whose result is that file, whatever
\* route served it.
C32_ExportsOnlyToOwner ==
  [][\A r \in Slots :
       (req'[r] # req[r] /\ req'[r].pc = "done")
         => /\ req'[r].resp.job # NoJob
                 => /\ req'[r].passedAuth
                    /\ \E job \in exportJobs : /\ job.id = req'[r].resp.job.id
                                                /\ job.userId = req[r].doc.id
            /\ (/\ req[r].pc = "getExportJobStatus"
                /\ \E job \in exportJobs : /\ job.id = req[r].jobId
                                            /\ job.userId # req[r].doc.id)
                 => req'[r].resp = Resp(403, MsgAccessDenied)
            /\ req'[r].resp.file # NoFile
                 => /\ req'[r].passedAuth
                    /\ \E job \in exportJobs : /\ job.userId = req[r].doc.id
                                                /\ job.fileName = req'[r].resp.file]_vars

\* The wrong passwords compared against the account since its counter was
\* last cleared: the failures saved and the ones whose save is to come.
WrongCompared ==
  hist.fails + Cardinality({r \in Slots : req[r].pc = "loginSave" /\ ~req[r].valid})

\* C33: under every interleaving of concurrent wrong-password logins on one
\* account no failed attempt is lost from the counter: every failure saved
\* raises the stored counter by one, and no more than the threshold of wrong
\* passwords is compared before the account is locked.
C33_NoFailureLost ==
  /\ [][\A i \in Ids :
          (hist'.fails = hist.fails + 1 /\ users[i].isActive)
             => users'[i].loginAttempts = users[i].loginAttempts + 1]_vars
  /\ [](\A i \in Ids : users[i].lockUntil = Null => WrongCompared <= LockThreshold)

\* C34: a refresh token that has been removed from an account's stored
\* membership (by rotation, Logout or Logout-all) is never in that membership
\* again, under every interleaving of concurrent Login, Refresh, Logout and
\* Logout-all requests on the account.
C34_RemovedNeverReenters ==
  \A tok \in gone : tok \notin Range(users[tok.id].refreshTokens)

\* C35: Logout revokes only tokens of the authenticated account: an entry a
\* Logout adds to the blacklist is for a token bound to the account the
\* request was authenticated as, so no account's token is rejected as
\* revoked because of another account's Logout.
C35_LogoutRevokesOwnOnly ==
  [][\A e \in blacklist' \ blacklist :
       e.reason = "logout" => e.token.id = e.userId]_vars

\* C36: device logs and usage are returned only to the device's owner: a
\* GET /devices/:id/logs or /devices/:id/usage of a user who does not own
\* the device is never answered with that device's data, by the handler or
\* from the response cache.
C36_LogsOnlyToOwner ==
  [][\A r \in Slots :
       (/\ req[r].op \in {"getLogs", "getUsage"}
        /\ req[r].pc \in {"cacheLogs", "getLogs", "getUsage"}
        /\ req'[r].pc = "done"
        /\ OwnDevice(devices, req[r].device, req[r].doc.id) = {})
         => req'[r].resp.data = NoData]_vars

\* C37: in every reachable account state the failed-attempt counter is at
\* least the threshold exactly when lock-until is set; the two are cleared
\* together, and lock-until is set only by the save of a failed Login that
\* brings the counter to the threshold or above.
C37_CounterAndLockAgree ==
  /\ [](\A i \in Ids :
          users[i].loginAttempts >= LockThreshold <=> users[i].lockUntil # Null)
  /\ [][\A i \in Ids :
          /\ (users[i].lockUntil # Null /\ users'[i].lockUntil = Null)
               => users'[i].loginAttempts = 0
          /\ users'[i].loginAttempts < users[i].loginAttempts
               => users'[i].lockUntil = Null
          /\ (users'[i].lockUntil # users[i].lockUntil /\ users'[i].lockUntil # Null)
               => /\ hist'.fails = hist.fails + 1
                  /\ users'[i].loginAttempts >= LockThreshold]_vars


\* How often a token occurs in a stored refreshTokens array.
Occurrences(tokens, tok) == Cardinality({k \in DOMAIN tokens : tokens[k] = tok})

\* The refresh tokens in the membership of an account that a successful
\* Login or Refresh returned for that account.
IssuedTo(i) == {tok \in hist.returned : tok.id = i /\ tok.type = "refresh"}

\* C38: every entry of an account's stored membership occurs in it exactly
\* once and is a refresh token that a successful Login or Refresh returned
\* for that account.
C38_HeldOnceAndIssued ==
  \A i \in Ids :
    \A tok \in Range(users[i].refreshTokens) :
      /\ Occurrences(users[i].refreshTokens, tok) = 1
      /\ tok \in IssuedTo(i)

\* The part of C38 that is about where the entries come from.
C38_OnlyIssued ==
  \A i \in Ids : Range(users[i].refreshTokens) \subseteq IssuedTo(i)

\* An account holds one refresh token twice.
C38_HeldTwice ==
  \E i \in Ids :
    \E tok \in Range(users[i].refreshTokens) :
      Occurrences(users[i].refreshTokens, tok) = 2


\* ------------------------------------------------- WebSocket service
\* The ids socket.io gives to the connections that are open at one time.
SocketIds == 1..MaxSockets

\* Map.prototype.set and Map.prototype.delete.
MapSet(m, k, v) == [x \in DOMAIN m \cup {k} |-> IF x = k THEN v ELSE m[x]]

MapDelete(m, k) == [x \in DOMAIN m \ {k} |-> m[x]]

\* The rooms a socket joins: `user:<id>` and `device:<id>`.
Room(kind, id) == <<kind, id>>

subscribeToDevice(subs, userId, deviceId) ==
  LET had == IF deviceId \in DOMAIN subs THEN subs ELSE MapSet(subs, deviceId, {})
  IN  MapSet(had, deviceId, had[deviceId] \cup {userId})

unsubscribeFromDevice(subs, userId, deviceId) ==
  IF deviceId \in DOMAIN subs
  THEN LET left == subs[deviceId] \ {userId}
       IN  IF left = {} THEN MapDelete(subs, deviceId) ELSE MapSet(subs, deviceId, left)
  ELSE subs

\* Every subscriber set loses the user; the sets that become empty are
\* deleted (so is a set that was empty before).
cleanupUserSubscriptions(subs, userId) ==
  [d \in {x \in DOMAIN subs : subs[x] \ {userId} # {}} |-> subs[d] \ {userId}]

\* What the handlers of the WebSocket service leave alone.
httpState == <<users, blacklist, pending, req, now, ticks, nreq, hist, env, sockets, swept,
               gone, edge>>

\* io.on('connection'): the handshake has accepted the socket of an active
\* user; the socket replaces whatever connectedUsers held for the user and
\* joins the user's room.
Connection(s, u) ==
  /\ s \notin {c.id : c \in connections}
  /\ u \in DOMAIN users /\ users[u] # NoDoc /\ users[u].isActive
  /\ connections' = connections \cup {[id |-> s, user |-> u, rooms |-> {Room("user", u)}]}
  /\ connectedUsers' = MapSet(connectedUsers, u, s)
  /\ UNCHANGED <<deviceSubscriptions, httpState>>

\* socket.on('subscribe-device'): any device id the client sends.
SubscribeDevice(c, deviceId) ==
  /\ c \in connections
  /\ deviceSubscriptions' = subscribeToDevice(deviceSubscriptions, c.user, deviceId)
  /\ connections' = (connections \ {c}) \cup
                      {[c EXCEPT !.rooms = @ \cup {Room("device", deviceId)}]}
  /\ UNCHANGED <<connectedUsers, httpState>>

\* socket.on('unsubscribe-device').
UnsubscribeDevice(c, deviceId) ==
  /\ c \in connections
  /\ deviceSubscriptions' = unsubscribeFromDevice(deviceSubscriptions, c.user, deviceId)
  /\ connections' = (connections \ {c}) \cup
                      {[c EXCEPT !.rooms = @ \ {Room("device", deviceId)}]}
  /\ UNCHANGED <<connectedUsers, httpState>>

\* socket.on('disconnect'): the socket is closed and has left its rooms.
Disconnect(c) ==
  /\ c \in connections
  /\ connections' = connections \ {c}
  /\ connectedUsers' = MapDelete(connectedUsers, c.user)
  /\ deviceSubscriptions' = cleanupUserSubscriptions(deviceSubscriptions, c.user)
  /\ UNCHANGED httpState

NextSockets ==
  \/ \E s \in SocketIds, u \in OwnerIds : Connection(s, u)
  \/ \E c \in connections, d \in {"d1", "d2"} : SubscribeDevice(c, d)
  \/ \E c \in connections, d \in {"d1", "d2"} : UnsubscribeDevice(c, d)
  \/ \E c \in connections : Disconnect(c)

SpecSockets == InitOwners /\ [][NextSockets]_vars

\* The users that have at least one open connection.
Online == {c.user : c \in connections}

\* The users of whom an open connection is subscribed to a device.
Subscribed(deviceId) == {c.user : c \in {x \in connections : Room("device", deviceId) \in x.rooms}}

\* C39: a user is in connectedUsers exactly when they have an open
\* connection, the subscriber set of a device holds only users of whom an
\* open connection is subscribed to it, and no subscriber set is empty.
C39_BookkeepingConsistent ==
  /\ DOMAIN connectedUsers = Online
  /\ \A d \in DOMAIN deviceSubscriptions :
       /\ deviceSubscriptions[d] \subseteq Subscribed(d)
       /\ deviceSubscriptions[d] # {}

\* The parts of C39 about deviceSubscriptions.
C39_SubscribersConsistent ==
  \A d \in DOMAIN deviceSubscriptions :
    /\ deviceSubscriptions[d] \subseteq Subscribed(d)
    /\ deviceSubscriptions[d] # {}

\* A user with an open connection is missing from connectedUsers.
C39_OnlineUnlisted == \E u \in Online : u \notin DOMAIN connectedUsers

====
